---- MODULE Spec2Model ----
(***************************************************************************)
(* A model of flytekit's node/graph override model (flytekit/core/node.py) *)
(* and of the lazy file value (flytekit/types/file/file.py).               *)
(*                                                                         *)
(* Five state machines share this module , each with its own variables      *)
(* and its own specification:                                              *)
(*   SpecGraph     Node.runs_before / Node.__rshift__ on a set of nodes    *)
(*   SpecOverride  Node.with_overrides on one node                         *)
(*   SpecFile      FlyteFile construction and path access, one thread      *)
(*   SpecFileConc  FlyteFile.__fspath__ run by several threads             *)
(*   SpecTransformer  the file and pickle transformers: to_literal,        *)
(*                 to_python_value, path access, guess_python_type         *)
(***************************************************************************)
EXTENDS Integers, Sequences, FiniteSets, TLC

VARIABLES
    upstream,   \* graph: node -> its _upstream_nodes list
    ret,        \* graph: the value the last call returned (None for runs_before)
    last,       \* graph: the last call made: op, self, other, present
    node,       \* override: the Node's fields (and its entity's task config)
    pre,        \* override: the Node's fields before the last with_overrides call
    args,       \* override: the arguments of the last with_overrides call
    result,     \* override: how the last call ended: exception kind, site, log
    ncalls,     \* override: with_overrides calls made so far
    ff,         \* file: the FlyteFile instance's fields (None before it exists)
    gets,       \* file: the file_access.get_data calls made, in order
    puts,       \* file: the put calls of to_literal on the value given, in order
    rets,       \* file: what each finished path access returned or raised
    ferr,       \* file: the exception the last operation raised, or "none"
    pc,         \* file: where each thread stands in __fspath__
    asked,      \* file: the literal and expected type given to to_python_value
    env,        \* transformer: the execution context (mode, libmagic, output prefix)
    store,      \* transformer: path or URI -> the content stored there
    val,        \* transformer: the value and declared type given to to_literal
    lit,        \* transformer: the literal to_literal returned
    out,        \* transformer: the value the pickle transformer returned
    guessed,    \* transformer: the last guess_python_type calls and their results
    back        \* transformer: to_literal on the converted value: result, put calls

graphVars == <<upstream, ret, last>>

overrideVars == <<node, pre, args, result, ncalls>>

fileVars == <<ff, gets, puts, rets, ferr, pc, asked>>

transformerVars == <<env, store, val, lit, out, guessed, back>>

vars == <<upstream, ret, last, node, pre, args, result, ncalls,
          ff, gets, puts, rets, ferr, pc, asked, env, store, val, lit, out, guessed,
          back>>

None == "None"

\* The variables of a state machine that a specification leaves alone.
OverrideIdle ==
    node = None /\ pre = None /\ args = None /\ result = None /\ ncalls = 0

FileIdle ==
    /\ ff = None /\ gets = <<>> /\ puts = <<>> /\ rets = <<>> /\ ferr = None /\ pc = None
    /\ asked = None

TransformerIdle ==
    /\ env = None /\ store = None /\ val = None
    /\ lit = None /\ out = None /\ guessed = None /\ back = None

(***************************************************************************)
(* Helpers on lists.                                                       *)
(***************************************************************************)
Elems(s) == {s[i] : i \in 1..Len(s)}

In(x, s) == \E i \in 1..Len(s) : s[i] = x

Count(s, x) == Cardinality({i \in 1..Len(s) : s[i] = x})

NoDup(s) == \A i, j \in 1..Len(s) : s[i] = s[j] => i = j

(***************************************************************************)
(* The graph: Node.runs_before and Node.__rshift__.                        *)
(***************************************************************************)
Nodes == {"n0", "n1", "n2"}

\* The longest upstream list a node is constructed with.
MaxInitLen == 1

DupFreeLists(n) == {s \in UNION {[1..k -> Nodes] : k \in 0..n} : NoDup(s)}

\* runs_before without the membership test.
runs_before_always_append(up, self, other) == [up EXCEPT ![other] = Append(@, self)]

\* Node.runs_before: other._upstream_nodes gets self appended unless it holds it.
runs_before(up, self, other) ==
    IF ~In(self, up[other])
    THEN [up EXCEPT ![other] = Append(@, self)]
    ELSE up

\* __rshift__ returning self instead of other.
rshift_returns_self(up, self, other) ==
    [upstream |-> runs_before(up, self, other), ret |-> self]

\* Node.__rshift__: runs_before, then the right operand is returned.
rshift(up, self, other) ==
    [upstream |-> runs_before(up, self, other), ret |-> other]

NoCall == [op |-> "none", self |-> None, other |-> None, present |-> FALSE]

GraphIdle == upstream = None /\ ret = None /\ last = None

InitGraph ==
    /\ OverrideIdle
    /\ FileIdle
    /\ TransformerIdle
    /\ upstream \in [Nodes -> DupFreeLists(MaxInitLen)]
    /\ ret = None
    /\ last = NoCall

\* a.runs_before(b)
RunsBefore(a, b) ==
    /\ UNCHANGED <<overrideVars, fileVars, transformerVars>>
    /\ upstream' = runs_before(upstream, a, b)
    /\ ret' = None
    /\ last' = [op |-> "runs_before", self |-> a, other |-> b,
                present |-> In(a, upstream[b])]

\* a >> b
RShift(a, b) ==
    /\ UNCHANGED <<overrideVars, fileVars, transformerVars>>
    /\ upstream' = rshift(upstream, a, b).upstream
    /\ ret' = rshift(upstream, a, b).ret
    /\ last' = [op |-> "rshift", self |-> a, other |-> b,
                present |-> In(a, upstream[b])]

\* (x >> y) >> c: the value the previous >> returned is the left operand.
Chain(c) ==
    /\ UNCHANGED <<overrideVars, fileVars, transformerVars>>
    /\ ret # None
    /\ upstream' = rshift(upstream, ret, c).upstream
    /\ ret' = rshift(upstream, ret, c).ret
    /\ last' = [op |-> "chain", self |-> ret, other |-> c,
                present |-> In(ret, upstream[c])]

NextGraph ==
    \/ \E a, b \in Nodes : RunsBefore(a, b)
    \/ \E a, b \in Nodes : RShift(a, b)
    \/ \E c \in Nodes : Chain(c)

SpecGraph == InitGraph /\ [][NextGraph]_vars

(***************************************************************************)
(* C1: after any sequence of runs_before / >> calls on nodes whose         *)
(* upstream lists start duplicate-free, no upstream list holds a node      *)
(* twice; a.runs_before(b) called when b already lists a leaves a there    *)
(* exactly once.                                                           *)
(***************************************************************************)
C1_NoDuplicateUpstream ==
    /\ \A n \in Nodes : NoDup(upstream[n])
    /\ last.op # "none" => Count(upstream[last.other], last.self) = 1

\* a.runs_before(b) was called with a already upstream of b.
C1_Witness ==
    /\ last.op = "runs_before"
    /\ last.present
    /\ Count(upstream[last.other], last.self) = 1

(***************************************************************************)
(* C2: a.runs_before(b) and a >> b have the same effect: a is appended to  *)
(* b.upstream_nodes when absent and nothing else changes; a >> b returns   *)
(* b, so a >> b >> c makes a upstream of b and b upstream of c, and does   *)
(* not itself make a upstream of c.                                        *)
(***************************************************************************)
EdgeAdded(up, a, b) ==
    [up EXCEPT ![b] = IF In(a, @) THEN @ ELSE Append(@, a)]

C2_Step ==
    /\ last'.op \in {"runs_before", "rshift"} =>
          \E a, b \in Nodes :
              /\ last'.self = a /\ last'.other = b
              /\ upstream' = EdgeAdded(upstream, a, b)
    /\ last'.op = "rshift" => ret' = last'.other
    /\ last'.op = "runs_before" => ret' = None
    /\ (last'.op = "chain" /\ last.op \in {"rshift", "chain"}) =>
          LET a == last.self
              b == last.other
              c == last'.other
          IN  /\ upstream' = EdgeAdded(upstream, b, c)
              /\ ret' = c
              /\ In(a, upstream'[b])
              /\ In(b, upstream'[c])
              /\ (a # b /\ ~In(a, upstream[c])) => ~In(a, upstream'[c])

C2_SameEffect == [][C2_Step]_vars

\* a >> b >> c was evaluated on three different nodes, none an edge before.
C2_Witness ==
    /\ last.op = "chain"
    /\ ~last.present
    /\ \E a \in Nodes :
          /\ a # last.self /\ a # last.other /\ last.self # last.other
          /\ In(a, upstream[last.self])
          /\ ~In(a, upstream[last.other])

(***************************************************************************)
(* Python values.  Every value is a record [t, v]: t names its type and v  *)
(* its content, a string; objects with fields (Resources, Cache, dict)     *)
(* are named by v and their fields are read through the operators below.   *)
(***************************************************************************)
Val(t, v) == [t |-> t, v |-> v]

PyNone == Val("NoneType", "None")

PyTrue == Val("bool", "True")

PyFalse == Val("bool", "False")

PyStr(s) == Val("str", s)

PyInt(n) == Val("int", n)

\* datetime.timedelta(seconds=n)
Timedelta(n) == Val("timedelta", n)

\* A flytekit.core.promise.Promise: the deferred output of another node.
Promise == Val("Promise", "n0.o0")

\* Node.TIMEOUT_OVERRIDE_SENTINEL = object()
TIMEOUT_OVERRIDE_SENTINEL == Val("object", "TIMEOUT_OVERRIDE_SENTINEL")

IsNone(x) == x.t = "NoneType"

\* isinstance(v, Promise)
IsPromise(x) == x.t = "Promise"

\* Python truthiness of the values used here: None, False and "" are falsy.
Truthy(x) == ~(IsNone(x) \/ x = PyFalse \/ x = PyStr(""))

(***************************************************************************)
(* flytekit.Resources objects.  A field is None, a value, or (for the      *)
(* `resources` override) a pair (request, limit).                          *)
(***************************************************************************)
ResourceNames == <<"cpu", "mem", "gpu", "ephemeral_storage">>

NoResources ==
    [cpu |-> PyNone, mem |-> PyNone, gpu |-> PyNone, ephemeral_storage |-> PyNone]

\* The Resources objects the calls are made with, by name.
ResourcesObjects == {"req", "lim", "with_promise", "pairs", "pairs_with_promise",
                     "spec_requests", "spec_limits",
                     "spec_requests_with_promise", "spec_limits_with_promise"}

ResourcesFields(r) ==
    CASE r = "req" -> [NoResources EXCEPT !.cpu = PyStr("1"), !.mem = PyStr("100")]
      [] r = "lim" -> [NoResources EXCEPT !.cpu = PyStr("2"), !.mem = PyStr("200"),
                                          !.ephemeral_storage = PyStr("1Gi")]
      [] r = "with_promise" -> [NoResources EXCEPT !.cpu = PyStr("1"), !.gpu = Promise]
      \* Resources(cpu=("1", "2"), mem="100"): read through from_multiple_resource
      [] r = "spec_requests" -> [NoResources EXCEPT !.cpu = PyStr("1"), !.mem = PyStr("100")]
      [] r = "spec_limits" -> [NoResources EXCEPT !.cpu = PyStr("2")]
      \* Resources(cpu=("1", promise), mem=promise)
      [] r = "spec_requests_with_promise" ->
             [NoResources EXCEPT !.cpu = PyStr("1"), !.mem = Promise]
      [] r = "spec_limits_with_promise" -> [NoResources EXCEPT !.cpu = Promise]
      [] OTHER -> NoResources

Resources(r) == Val("Resources", r)

\* isinstance(x, Resources)
IsResources(x) == x.t = "Resources"

\* ResourceSpec.from_multiple_resource: a pair goes to requests and limits,
\* a single value to requests only.
from_multiple_resource(r) ==
    IF r = Resources("pairs")
    THEN [requests |-> Resources("spec_requests"),
          limits |-> Resources("spec_limits")]
    ELSE [requests |-> Resources("spec_requests_with_promise"),
          limits |-> Resources("spec_limits_with_promise")]

ResourceEntry(name, value) == [name |-> name, value |-> value]

RECURSIVE EntriesFrom(_, _)
EntriesFrom(fields, i) ==
    IF i > Len(ResourceNames) THEN <<>>
    ELSE LET n == ResourceNames[i]
             rest == EntriesFrom(fields, i + 1)
         IN  IF IsNone(fields[n]) THEN rest
             ELSE <<ResourceEntry(n, fields[n])>> \o rest

\* _convert_resource_overrides: one entry per field that is not None, in the
\* order cpu, mem, gpu, ephemeral_storage; None gives the empty list.
convert_resource_overrides(resources) ==
    IF IsNone(resources) THEN <<>>
    ELSE EntriesFrom(ResourcesFields(resources.v), 1)

\* convert_resources_to_resource_model: the entries of requests and limits.
convert_resources_to_resource_model(requests, limits) ==
    [some |-> TRUE,
     requests |-> IF Truthy(requests) THEN convert_resource_overrides(requests) ELSE <<>>,
     limits |-> IF Truthy(limits) THEN convert_resource_overrides(limits) ELSE <<>>]

\* No resource override: Node._resources = None.
NoResourceOverride == [some |-> FALSE, requests |-> <<>>, limits |-> <<>>]

\* assert_not_promise that lets every value through.
assert_not_promise_off(v) == FALSE

\* assert_not_promise(v, location): TRUE when it raises AssertionError.
assert_not_promise(v) == IsPromise(v)

\* assert_no_promises_in_resources: the site at which it raises
\* AssertionError, or "none".
assert_no_promises_in_resources(res) ==
    IF \E i \in 1..Len(res.requests) : assert_not_promise(res.requests[i].value)
    THEN "resources.requests"
    ELSE IF \E i \in 1..Len(res.limits) : assert_not_promise(res.limits[i].value)
    THEN "resources.limits"
    ELSE "none"

(***************************************************************************)
(* Other objects passed to with_overrides.                                 *)
(***************************************************************************)
Dict(d) == Val("dict", d)

\* isinstance(x, dict)
IsDict(x) == x.t = "dict"

\* dict.items() of the alias dicts the calls are made with, in insertion order.
DictItems(d) ==
    CASE d = "a1" -> <<<<"o0", PyStr("x")>>>>
      [] d = "a2" -> <<<<"o1", PyStr("y")>>, <<"o0", PyStr("z")>>>>
      [] d = "with_promise" -> <<<<"o0", Promise>>>>
      [] OTHER -> <<>>

\* _workflow_model.Alias(var=k, alias=v)
Alias(k, v) == [var |-> k, alias |-> v]

\* Node._aliases = None
NoAliases == [some |-> FALSE, items |-> <<>>]

\* The list built from aliases.items().
AliasList(d) ==
    [some |-> TRUE,
     items |-> [i \in 1..Len(DictItems(d.v)) |->
                   Alias(DictItems(d.v)[i][1], DictItems(d.v)[i][2])]]

\* flytekit.core.cache.Cache objects, by name: version and serialize.
Cache(c) == Val("Cache", c)

\* isinstance(x, Cache)
IsCache(x) == x.t = "Cache"

CacheVersion(c) ==
    CASE c = "v1" -> PyStr("v1")
      [] c = "v1_serialize" -> PyStr("v1")
      [] c = "promise_version" -> Promise
      [] OTHER -> PyNone

CacheSerialize(c) == IF c = "v1_serialize" THEN PyTrue ELSE PyFalse

\* Task config classes: TSub is a subclass of T, U is unrelated.
Subclasses == {<<"TSub", "T">>}

\* isinstance(x, cls)
IsInstance(x, cls) == x.t = cls \/ <<x.t, cls>> \in Subclasses

\* _dnsify on the names used here: lower case, "-" for "_" and ".".
dnsify(name) ==
    CASE name = "t_1" -> "t-1"
      [] name = "My.Node" -> "my-node"
      [] OTHER -> name

\* _literal_models.RetryStrategy(n)
RetryStrategy(n) == Val("RetryStrategy", n.v)

\* Node._extended_resources = None
NoExtendedResources ==
    [some |-> FALSE, gpu_accelerator |-> PyNone, shared_memory |-> PyNone]

\* construct_extended_resources: None unless an accelerator or a shared
\* memory setting (True or a size string) is given.
construct_extended_resources(accelerator, shared_memory) ==
    LET shm == IF shared_memory.t = "str" THEN Val("SharedMemory", shared_memory.v)
               ELSE IF shared_memory = PyTrue THEN Val("SharedMemory", "default")
               ELSE PyNone
    IN  [some |-> ~IsNone(accelerator) \/ ~IsNone(shm),
         gpu_accelerator |-> accelerator,
         shared_memory |-> shm]

(***************************************************************************)
(* The node.                                                               *)
(***************************************************************************)
\* NodeMetadata of a task declared without settings.
DefaultMetadata ==
    [name |-> PyStr("t1"), timeout |-> Timedelta("0"),
     retries |-> Val("RetryStrategy", "0"), interruptible |-> PyNone,
     cacheable |-> PyFalse, cache_version |-> PyNone,
     cache_serializable |-> PyFalse]

\* NodeMetadata of @task(timeout=100 s, retries=2, cache=True,
\* cache_version="v0", cache_serialize=True, interruptible=True).
PresetMetadata ==
    [name |-> PyStr("t2"), timeout |-> Timedelta("100"),
     retries |-> Val("RetryStrategy", "2"), interruptible |-> PyTrue,
     cacheable |-> PyTrue, cache_version |-> PyStr("v0"),
     cache_serializable |-> PyTrue]

\* Node.__init__: the id is dnsified and every override field starts None.
NewNode(id, metadata, entity) ==
    [id |-> dnsify(id),
     entity |-> entity,
     metadata |-> metadata,
     sub_node_metadata |-> metadata,
     task_config |-> Val("T", "cfg0"),
     aliases |-> NoAliases,
     resources |-> NoResourceOverride,
     extended_resources |-> NoExtendedResources,
     container_image |-> PyNone,
     pod_template |-> PyNone]

\* with_overrides called with no argument at all.
NoArgs ==
    [node_name |-> PyNone, aliases |-> PyNone, requests |-> PyNone,
     limits |-> PyNone, timeout |-> TIMEOUT_OVERRIDE_SENTINEL,
     retries |-> PyNone, interruptible |-> PyNone, name |-> PyNone,
     task_config |-> PyNone, container_image |-> PyNone,
     accelerator |-> PyNone, cache |-> PyNone, shared_memory |-> PyNone,
     pod_template |-> PyNone, resources |-> PyNone,
     cache_version |-> PyNone, cache_serialize |-> PyNone]

\* raise kind(...) at a site of the code
Raise(st, kind, at) == [st EXCEPT !.exc = kind, !.at = at]

(***************************************************************************)
(* Node._override_node_metadata, block by block.  m carries the metadata   *)
(* being written, the exception raised so far (exc, at) and the locals     *)
(* cache, cache_version and cache_serialize, which the cache block         *)
(* rebinds.  A block does nothing once an exception is raised.             *)
(***************************************************************************)
\* The timeout block with None treated as "no change".
TimeoutBlockNoneKeeps(m, timeout) ==
    IF m.exc # "none" \/ timeout = TIMEOUT_OVERRIDE_SENTINEL \/ IsNone(timeout) THEN m
    ELSE IF timeout.t = "int" THEN [m EXCEPT !.md.timeout = Timedelta(timeout.v)]
    ELSE IF timeout.t = "timedelta" THEN [m EXCEPT !.md.timeout = timeout]
    ELSE Raise(m, "ValueError", "timeout")

TimeoutBlock(m, timeout) ==
    IF m.exc # "none" \/ timeout = TIMEOUT_OVERRIDE_SENTINEL THEN m
    ELSE IF IsNone(timeout) THEN [m EXCEPT !.md.timeout = Timedelta("0")]
    ELSE IF timeout.t = "int" THEN [m EXCEPT !.md.timeout = Timedelta(timeout.v)]
    ELSE IF timeout.t = "timedelta" THEN [m EXCEPT !.md.timeout = timeout]
    ELSE Raise(m, "ValueError", "timeout")

\* The retries block that resets the strategy when retries is None.
RetriesBlockNoneResets(m, retries) ==
    IF m.exc # "none" THEN m
    ELSE IF IsNone(retries) THEN [m EXCEPT !.md.retries = RetryStrategy(PyInt("0"))]
    ELSE IF assert_not_promise(retries) THEN Raise(m, "AssertionError", "retries")
    ELSE [m EXCEPT !.md.retries = RetryStrategy(retries)]

\* if retries is not None: ... (lines 172-176)
RetriesBlock(m, retries) ==
    IF m.exc # "none" \/ IsNone(retries) THEN m
    ELSE IF assert_not_promise(retries) THEN Raise(m, "AssertionError", "retries")
    ELSE [m EXCEPT !.md.retries = RetryStrategy(retries)]

InterruptibleBlock(m, interruptible) ==
    IF m.exc # "none" \/ IsNone(interruptible) THEN m
    ELSE IF assert_not_promise(interruptible)
    THEN Raise(m, "AssertionError", "interruptible")
    ELSE [m EXCEPT !.md.interruptible = interruptible]

NameBlock(m, name) ==
    IF m.exc # "none" \/ IsNone(name) THEN m
    ELSE [m EXCEPT !.md.name = name]

\* The cache block that does not unpack serialize from a Cache object.
CacheBlockKeepsSerialize(m) ==
    IF m.exc # "none" \/ IsNone(m.cache) THEN m
    ELSE IF assert_not_promise(m.cache) THEN Raise(m, "AssertionError", "cache")
    ELSE LET default == m.cache = PyTrue /\ IsNone(m.cache_version)
             version == IF default THEN PyNone ELSE CacheVersion(m.cache.v)
         IN  IF ~(default \/ IsCache(m.cache)) THEN m
             ELSE IF ~IsNone(m.cache_serialize) \/ ~IsNone(m.cache_version)
             THEN Raise(m, "ValueError", "deprecated_cache_parameters")
             ELSE IF IsNone(version) THEN Raise(m, "ValueError", "cache.version")
             ELSE [m EXCEPT !.cache_version = version, !.cache = PyTrue]

\* if cache is not None: ... (lines 185-211).  cache=True without a
\* cache_version becomes Cache(serialize=cache_serialize or False), whose
\* version is None; a Cache object is then checked against the deprecated
\* parameters and for its version, and unpacked into the three locals.
CacheBlock(m) ==
    IF m.exc # "none" \/ IsNone(m.cache) THEN m
    ELSE IF assert_not_promise(m.cache) THEN Raise(m, "AssertionError", "cache")
    ELSE LET default == m.cache = PyTrue /\ IsNone(m.cache_version)
             version == IF default THEN PyNone ELSE CacheVersion(m.cache.v)
             serialize == IF default
                          THEN (IF ~IsNone(m.cache_serialize)
                                THEN m.cache_serialize ELSE PyFalse)
                          ELSE CacheSerialize(m.cache.v)
         IN  IF ~(default \/ IsCache(m.cache)) THEN m
             ELSE IF ~IsNone(m.cache_serialize) \/ ~IsNone(m.cache_version)
             THEN Raise(m, "ValueError", "deprecated_cache_parameters")
             ELSE IF IsNone(version) THEN Raise(m, "ValueError", "cache.version")
             ELSE [m EXCEPT !.cache_version = version,
                            !.cache_serialize = serialize,
                            !.cache = PyTrue]

\* node_metadata._cacheable = cache (line 213): run whether or not a cache
\* argument was given.
CacheableBlock(m) ==
    IF m.exc # "none" THEN m ELSE [m EXCEPT !.md.cacheable = m.cache]

CacheVersionBlock(m) ==
    IF m.exc # "none" \/ IsNone(m.cache_version) THEN m
    ELSE IF assert_not_promise(m.cache_version)
    THEN Raise(m, "AssertionError", "cache_version")
    ELSE [m EXCEPT !.md.cache_version = m.cache_version]

CacheSerializeBlock(m) ==
    IF m.exc # "none" \/ IsNone(m.cache_serialize) THEN m
    ELSE IF assert_not_promise(m.cache_serialize)
    THEN Raise(m, "AssertionError", "cache_serialize")
    ELSE [m EXCEPT !.md.cache_serializable = m.cache_serialize]

\* Node._override_node_metadata on the metadata record md.
override_node_metadata(md, a) ==
    LET m0 == [md |-> md, exc |-> "none", at |-> "none", cache |-> a.cache,
               cache_version |-> a.cache_version,
               cache_serialize |-> a.cache_serialize]
        m1 == TimeoutBlock(m0, a.timeout)
        m2 == RetriesBlock(m1, a.retries)
        m3 == InterruptibleBlock(m2, a.interruptible)
        m4 == NameBlock(m3, a.name)
        m5 == CacheBlock(m4)
        m6 == CacheableBlock(m5)
        m7 == CacheVersionBlock(m6)
    IN  CacheSerializeBlock(m7)

(***************************************************************************)
(* Node.with_overrides, block by block.  st carries the node being         *)
(* mutated, the exception raised so far (exc, at), the warnings logged and *)
(* the locals requests and limits, which the resources block rebinds.      *)
(* What a block wrote before a later block raises stays written.           *)
(***************************************************************************)
\* The node_name block that stores the name as given.
NodeNameBlockKeepsName(st, a) ==
    IF st.exc # "none" \/ IsNone(a.node_name) THEN st
    ELSE IF assert_not_promise(a.node_name) THEN Raise(st, "AssertionError", "node_name")
    ELSE [st EXCEPT !.node.id = a.node_name.v]

\* if node_name is not None: ... (lines 243-247)
NodeNameBlock(st, a) ==
    IF st.exc # "none" \/ IsNone(a.node_name) THEN st
    ELSE IF assert_not_promise(a.node_name) THEN Raise(st, "AssertionError", "node_name")
    ELSE [st EXCEPT !.node.id = dnsify(a.node_name.v)]

\* The aliases block that adds the aliases given to those the node has.
AliasesBlockAccumulates(st, a) ==
    IF st.exc # "none" \/ IsNone(a.aliases) THEN st
    ELSE IF ~IsDict(a.aliases) THEN Raise(st, "AssertionError", "aliases")
    ELSE [st EXCEPT !.node.aliases =
             [some |-> TRUE, items |-> st.node.aliases.items \o AliasList(a.aliases).items]]

\* if aliases is not None: ... (lines 249-254)
AliasesBlock(st, a) ==
    IF st.exc # "none" \/ IsNone(a.aliases) THEN st
    ELSE IF ~IsDict(a.aliases) THEN Raise(st, "AssertionError", "aliases")
    ELSE [st EXCEPT !.node.aliases = AliasList(a.aliases)]

\* The resources block without the mutual-exclusion check.
ResourcesBlockNoExclusion(st, a) ==
    IF st.exc # "none" \/ IsNone(a.resources) THEN st
    ELSE [st EXCEPT !.requests = from_multiple_resource(a.resources).requests,
                    !.limits = from_multiple_resource(a.resources).limits]

\* if resources is not None: ... (lines 256-262)
ResourcesBlock(st, a) ==
    IF st.exc # "none" \/ IsNone(a.resources) THEN st
    ELSE IF ~IsNone(st.limits) \/ ~IsNone(st.requests)
    THEN Raise(st, "ValueError", "resources_with_requests_or_limits")
    ELSE [st EXCEPT !.requests = from_multiple_resource(a.resources).requests,
                    !.limits = from_multiple_resource(a.resources).limits]

\* The requests / limits block that keeps the limits the node had when
\* none are given.
RequestsLimitsBlockKeepsLimits(st) ==
    IF st.exc # "none" \/ (IsNone(st.requests) /\ IsNone(st.limits)) THEN st
    ELSE LET resources_ == convert_resources_to_resource_model(st.requests, st.limits)
         IN  [st EXCEPT !.node.resources =
                 IF Truthy(st.limits) THEN resources_
                 ELSE [resources_ EXCEPT !.limits = st.node.resources.limits]]

\* if requests is not None or limits is not None: ... (lines 264-280)
RequestsLimitsBlock(st) ==
    IF st.exc # "none" \/ (IsNone(st.requests) /\ IsNone(st.limits)) THEN st
    ELSE IF Truthy(st.requests) /\ ~IsResources(st.requests)
    THEN Raise(st, "AssertionError", "requests")
    ELSE IF Truthy(st.limits) /\ ~IsResources(st.limits)
    THEN Raise(st, "AssertionError", "limits")
    ELSE LET logged == IF ~Truthy(st.limits)
                       THEN [st EXCEPT !.log = @ \cup {"requests_without_limits"}]
                       ELSE st
             resources_ == convert_resources_to_resource_model(st.requests, st.limits)
             site == assert_no_promises_in_resources(resources_)
         IN  IF site # "none"
             THEN Raise(logged, "AssertionError", site)
             ELSE [logged EXCEPT !.node.resources = resources_]

\* if task_config is not None: ... (lines 282-286)
TaskConfigBlock(st, a) ==
    IF st.exc # "none" \/ IsNone(a.task_config) THEN st
    ELSE LET logged == [st EXCEPT !.log = @ \cup {"task_config_override_is_beta"}]
         IN  IF ~IsInstance(a.task_config, st.node.task_config.t)
             THEN Raise(logged, "ValueError", "task_config")
             ELSE [logged EXCEPT !.node.task_config = a.task_config]

\* The container_image block that assigns before it checks.
ContainerImageBlockWritesFirst(st, a) ==
    IF st.exc # "none" \/ IsNone(a.container_image) THEN st
    ELSE LET written == [st EXCEPT !.node.container_image = a.container_image]
         IN  IF assert_not_promise(a.container_image)
             THEN Raise(written, "AssertionError", "container_image")
             ELSE written

\* if container_image is not None: ... (lines 288-290)
ContainerImageBlock(st, a) ==
    IF st.exc # "none" \/ IsNone(a.container_image) THEN st
    ELSE IF assert_not_promise(a.container_image)
    THEN Raise(st, "AssertionError", "container_image")
    ELSE [st EXCEPT !.node.container_image = a.container_image]

\* lines 292-298: both checks, then the assignment, made in every call.
ExtendedResourcesBlock(st, a) ==
    IF st.exc # "none" THEN st
    ELSE IF ~IsNone(a.accelerator) /\ assert_not_promise(a.accelerator)
    THEN Raise(st, "AssertionError", "accelerator")
    ELSE IF ~IsNone(a.shared_memory) /\ assert_not_promise(a.shared_memory)
    THEN Raise(st, "AssertionError", "shared_memory")
    ELSE [st EXCEPT !.node.extended_resources =
                        construct_extended_resources(a.accelerator, a.shared_memory)]

\* The metadata block that always writes the node's own metadata.
MetadataBlockOwnMetadata(st, a) ==
    IF st.exc # "none" THEN st
    ELSE LET m == override_node_metadata(st.node.metadata, a)
         IN  [st EXCEPT !.node.metadata = m.md, !.exc = m.exc, !.at = m.at]

\* line 300: the metadata written is the entity's sub_node_metadata when the
\* entity is an ArrayNodeMapTask, the node's own otherwise.
MetadataBlock(st, a) ==
    IF st.exc # "none" THEN st
    ELSE LET mapped == st.node.entity = "ArrayNodeMapTask"
             m == override_node_metadata(
                      IF mapped THEN st.node.sub_node_metadata ELSE st.node.metadata, a)
             written == IF mapped
                        THEN [st EXCEPT !.node.sub_node_metadata = m.md]
                        ELSE [st EXCEPT !.node.metadata = m.md]
         IN  [written EXCEPT !.exc = m.exc, !.at = m.at]

PodTemplateBlock(st, a) ==
    IF st.exc # "none" \/ IsNone(a.pod_template) THEN st
    ELSE IF assert_not_promise(a.pod_template)
    THEN Raise(st, "AssertionError", "podtemplate")
    ELSE [st EXCEPT !.node.pod_template = a.pod_template]

\* Node.with_overrides(**a) on node n: the node as the call leaves it, the
\* exception it raised ("none" when it returned self) and what it logged.
with_overrides(n, a) ==
    LET s0 == [node |-> n, exc |-> "none", at |-> "none", log |-> {},
               requests |-> a.requests, limits |-> a.limits]
        s1 == NodeNameBlock(s0, a)
        s2 == AliasesBlock(s1, a)
        s3 == ResourcesBlock(s2, a)
        s4 == RequestsLimitsBlock(s3)
        s5 == TaskConfigBlock(s4, a)
        s6 == ContainerImageBlock(s5, a)
        s7 == ExtendedResourcesBlock(s6, a)
        s8 == MetadataBlock(s7, a)
    IN  PodTemplateBlock(s8, a)

(***************************************************************************)
(* The calls made: the values each parameter takes, and the combinations   *)
(* of parameters a call is made with.                                      *)
(***************************************************************************)
ArgValues ==
    [node_name |-> {PyNone, PyStr("t_1"), Promise},
     aliases |-> {PyNone, Dict("a1"), Dict("a2"), Dict("with_promise"),
                  PyStr("not_a_dict")},
     requests |-> {PyNone, Resources("req"), Resources("with_promise"),
                   PyStr("not_resources")},
     limits |-> {PyNone, Resources("lim"), Resources("with_promise"),
                 PyStr("not_resources")},
     timeout |-> {TIMEOUT_OVERRIDE_SENTINEL, PyNone, PyInt("10"), Timedelta("30"),
                  PyStr("foo"), Promise},
     retries |-> {PyNone, PyInt("3"), Promise},
     interruptible |-> {PyNone, PyTrue, PyFalse, Promise},
     name |-> {PyNone, PyStr("foo"), Promise},
     task_config |-> {PyNone, Val("T", "cfg1"), Val("TSub", "cfg2"), Val("U", "cfg3"),
                      Promise},
     container_image |-> {PyNone, PyStr("img"), Promise},
     accelerator |-> {PyNone, Val("Accelerator", "A100"), Promise},
     cache |-> {PyNone, PyTrue, PyFalse, Promise, Cache("v1"), Cache("v1_serialize"),
                Cache("no_version"), Cache("promise_version")},
     shared_memory |-> {PyNone, PyTrue, PyStr("128Mi"), Promise},
     pod_template |-> {PyNone, Val("PodTemplate", "pt1"), Promise},
     resources |-> {PyNone, Resources("pairs"), Resources("pairs_with_promise")},
     cache_version |-> {PyNone, PyStr("v1"), Promise},
     cache_serialize |-> {PyNone, PyTrue, PyFalse, Promise}]

\* The values of a parameter that make the call raise whatever else is passed.
InvalidValues ==
    [node_name |-> {Promise},
     aliases |-> {PyStr("not_a_dict")},
     requests |-> {Resources("with_promise"), PyStr("not_resources")},
     limits |-> {Resources("with_promise"), PyStr("not_resources")},
     timeout |-> {PyStr("foo"), Promise},
     retries |-> {Promise},
     interruptible |-> {Promise},
     name |-> {},
     task_config |-> {Val("U", "cfg3"), Promise},
     container_image |-> {Promise},
     accelerator |-> {Promise},
     cache |-> {Promise},
     shared_memory |-> {Promise},
     pod_template |-> {Promise},
     resources |-> {},
     cache_version |-> {Promise},
     cache_serialize |-> {Promise}]

\* Parameters no other parameter is read with.
SingleParams == {"node_name", "aliases", "timeout", "retries", "interruptible",
                 "name", "task_config", "container_image", "pod_template"}

\* One parameter set, the others left at their defaults.
SingleCalls ==
    UNION {{[NoArgs EXCEPT ![p] = v] : v \in ArgValues[p]} : p \in SingleParams}

\* resources, requests and limits: every combination.
ResourceCalls ==
    {[NoArgs EXCEPT !.resources = x, !.requests = y, !.limits = z] :
        x \in ArgValues.resources, y \in ArgValues.requests, z \in ArgValues.limits}

\* cache, cache_version and cache_serialize: every combination with cache a
\* bool or omitted; a Cache object with and without each legacy parameter.
CacheCalls ==
    {[NoArgs EXCEPT !.cache = x, !.cache_version = y, !.cache_serialize = z] :
        x \in {PyNone, PyTrue, PyFalse},
        y \in ArgValues.cache_version, z \in ArgValues.cache_serialize}
    \cup
    {[NoArgs EXCEPT !.cache = x, !.cache_version = y, !.cache_serialize = z] :
        x \in {c \in ArgValues.cache : IsCache(c)},
        y \in {PyNone, PyStr("v1")}, z \in {PyNone, PyTrue}}
    \cup {[NoArgs EXCEPT !.cache = Promise]}

\* accelerator and shared_memory: every combination.
ExtendedResourceCalls ==
    {[NoArgs EXCEPT !.accelerator = x, !.shared_memory = y] :
        x \in ArgValues.accelerator, y \in ArgValues.shared_memory}

\* Every parameter set to a value the code accepts.
FullCall ==
    [node_name |-> PyStr("t_1"), aliases |-> Dict("a1"),
     requests |-> Resources("req"), limits |-> Resources("lim"),
     timeout |-> PyInt("10"), retries |-> PyInt("3"), interruptible |-> PyTrue,
     name |-> PyStr("foo"), task_config |-> Val("T", "cfg1"),
     container_image |-> PyStr("img"), accelerator |-> Val("Accelerator", "A100"),
     cache |-> PyTrue, shared_memory |-> PyStr("128Mi"),
     pod_template |-> Val("PodTemplate", "pt1"), resources |-> PyNone,
     cache_version |-> PyStr("v1"), cache_serialize |-> PyTrue]

\* Every parameter set, one of them to a value the code rejects.
FullCalls ==
    {FullCall} \cup
    UNION {{[FullCall EXCEPT ![p] = v] : v \in InvalidValues[p]} :
              p \in DOMAIN InvalidValues}
    \cup {[FullCall EXCEPT !.resources = Resources("pairs")],
          [FullCall EXCEPT !.resources = Resources("pairs"), !.node_name = Promise]}

Calls ==
    SingleCalls \cup ResourceCalls \cup CacheCalls \cup ExtendedResourceCalls
        \cup FullCalls

\* The with_overrides calls made on one node.
MaxCalls == 2

NoResult == [kind |-> "none", at |-> "none", log |-> {}]

InitOverride ==
    /\ GraphIdle
    /\ FileIdle
    /\ TransformerIdle
    /\ node \in {NewNode("n0", PresetMetadata, "PythonFunctionTask"),
                 NewNode("n1", DefaultMetadata, "ArrayNodeMapTask")}
    /\ pre = node
    /\ args = NoArgs
    /\ result = NoResult
    /\ ncalls = 0

\* node.with_overrides(**a)
WithOverrides(a) ==
    /\ ncalls < MaxCalls
    /\ LET r == with_overrides(node, a)
       IN  /\ node' = r.node
           /\ result' = [kind |-> IF r.exc = "none" THEN "ok" ELSE r.exc,
                         at |-> r.at, log |-> r.log]
    /\ pre' = node
    /\ args' = a
    /\ ncalls' = ncalls + 1
    /\ UNCHANGED <<graphVars, fileVars, transformerVars>>

NextOverride == \E a \in Calls : WithOverrides(a)

SpecOverride == InitOverride /\ [][NextOverride]_vars

(***************************************************************************)
(* What the claims about with_overrides read.                              *)
(***************************************************************************)
Called == ncalls > 0

Raised(kind) == result.kind = kind

\* The metadata a call writes: the sub-node's on a mapped node.
WrittenMetadata(n) ==
    IF n.entity = "ArrayNodeMapTask" THEN n.sub_node_metadata ELSE n.metadata

\* The sites at which a call can raise before it reads resources.
SitesBeforeResources == {"node_name", "aliases"}

\* ... before it calls _override_node_metadata.
SitesBeforeMetadata ==
    SitesBeforeResources \cup
    {"resources_with_requests_or_limits", "requests", "limits",
     "resources.requests", "resources.limits", "task_config", "container_image",
     "accelerator", "shared_memory"}

\* ... before _override_node_metadata reads cache.
SitesBeforeCache == SitesBeforeMetadata \cup {"timeout", "retries", "interruptible"}

\* Every parameter but those in ps is omitted.
OnlyArgs(ps) == \A p \in DOMAIN NoArgs \ ps : args[p] = NoArgs[p]

(***************************************************************************)
(* C3: with_overrides called with resources together with requests or      *)
(* limits (either or both) raises ValueError and leaves the node's         *)
(* resource override as it was.  (A promise as node_name or a non-dict     *)
(* aliases is rejected before resources is read.)                          *)
(***************************************************************************)
C3_ResourcesExclusive ==
    (/\ Called
     /\ ~IsNone(args.resources)
     /\ ~IsNone(args.requests) \/ ~IsNone(args.limits)
     /\ result.at \notin SitesBeforeResources)
    => /\ Raised("ValueError")
       /\ node.resources = pre.resources

\* resources, requests and limits were all passed to a node that already had
\* a resource override.
C3_Witness ==
    /\ Called
    /\ args.resources = Resources("pairs")
    /\ args.requests = Resources("req")
    /\ args.limits = Resources("lim")
    /\ pre.resources.some
    /\ Raised("ValueError")

(***************************************************************************)
(* C4: a Cache object passed with cache_version or cache_serialize raises  *)
(* ValueError; a Cache object whose version is None raises ValueError;     *)
(* cache_version and cache_serialize passed without a Cache object are     *)
(* accepted and written to the node metadata.                              *)
(***************************************************************************)
C4_CacheObjectExcludesLegacy ==
    (/\ Called
     /\ IsCache(args.cache)
     /\ ~IsNone(args.cache_version) \/ ~IsNone(args.cache_serialize)
     /\ result.at \notin SitesBeforeCache)
    => Raised("ValueError")

C4_CacheObjectNeedsVersion ==
    (/\ Called
     /\ IsCache(args.cache)
     /\ IsNone(CacheVersion(args.cache.v))
     /\ result.at \notin SitesBeforeCache)
    => Raised("ValueError")

C4_LegacyAccepted ==
    (/\ Called
     /\ args.cache \in {PyNone, PyTrue, PyFalse}
     /\ ~IsNone(args.cache_version) \/ ~IsNone(args.cache_serialize)
     /\ ~IsPromise(args.cache_version) /\ ~IsPromise(args.cache_serialize)
     /\ result.at \notin SitesBeforeCache)
    => /\ ~Raised("ValueError")
       /\ ~IsNone(args.cache_version) =>
              WrittenMetadata(node).cache_version = args.cache_version
       /\ ~IsNone(args.cache_serialize) =>
              WrittenMetadata(node).cache_serializable = args.cache_serialize

C4_CachePolicyVersusLegacy ==
    /\ C4_CacheObjectExcludesLegacy
    /\ C4_CacheObjectNeedsVersion
    /\ C4_LegacyAccepted


(***************************************************************************)
(* C5: a promise passed as node_name, retries, interruptible, cache,       *)
(* cache_version, cache_serialize, container_image, accelerator,           *)
(* shared_memory, pod_template or as a resource entry makes the call       *)
(* raise, and the promise is not stored in the node field of that          *)
(* parameter.  What is raised is AssertionError when the promise is the    *)
(* only argument and when every other argument is one the call accepts;    *)
(* the ValueError of another rule can come first otherwise.                *)
(***************************************************************************)
PromiseChecked == {"node_name", "retries", "interruptible", "cache", "cache_version",
                   "cache_serialize", "container_image", "accelerator",
                   "shared_memory", "pod_template"}

\* x is a Resources object one of whose entries is a promise.
HasPromiseEntry(x) ==
    IsResources(x) /\ \E n \in DOMAIN NoResources : IsPromise(ResourcesFields(x.v)[n])

\* x is a Resources object of (request, limit) pairs that hold a promise.
HasPromisePair(x) ==
    /\ IsResources(x)
    /\ \/ HasPromiseEntry(from_multiple_resource(x).requests)
       \/ HasPromiseEntry(from_multiple_resource(x).limits)

EntriesHoldPromise(es) == \E i \in 1..Len(es) : IsPromise(es[i].value)

MetadataHoldsPromise(md) ==
    \/ md.retries.v = Promise.v
    \/ \E f \in {"interruptible", "cacheable", "cache_version", "cache_serializable"} :
           IsPromise(md[f])

\* A field written from a promise-checked parameter holds a promise.
CheckedFieldHoldsPromise(n) ==
    \/ n.id = Promise.v
    \/ MetadataHoldsPromise(n.metadata)
    \/ MetadataHoldsPromise(n.sub_node_metadata)
    \/ IsPromise(n.container_image)
    \/ IsPromise(n.pod_template)
    \/ IsPromise(n.extended_resources.gpu_accelerator)
    \/ n.extended_resources.shared_memory.v = Promise.v
    \/ EntriesHoldPromise(n.resources.requests)
    \/ EntriesHoldPromise(n.resources.limits)

PromisePassed ==
    \/ \E p \in PromiseChecked : IsPromise(args[p])
    \/ \E p \in {"requests", "limits"} : HasPromiseEntry(args[p])
    \/ HasPromisePair(args.resources)

\* Every argument but p is one the call accepts on the node it is made on
\* (task_config has to be of the type of the node's task config).
OthersAccepted(p, v) ==
    /\ args = [FullCall EXCEPT ![p] = v]
    /\ IsInstance(args.task_config, pre.task_config.t)

\* The promise is the only argument, or every other argument is accepted.
PromiseAlone ==
    \/ \E p \in PromiseChecked :
           IsPromise(args[p]) /\ (OnlyArgs({p}) \/ OthersAccepted(p, Promise))
    \/ \E p \in {"requests", "limits"} :
           /\ HasPromiseEntry(args[p])
           /\ OnlyArgs({p}) \/ OthersAccepted(p, Resources("with_promise"))
    \/ HasPromisePair(args.resources) /\ OnlyArgs({"resources"})

C5_PromiseRejected ==
    Called =>
        /\ ~CheckedFieldHoldsPromise(node)
        /\ PromisePassed => Raised("AssertionError") \/ Raised("ValueError")
        /\ PromiseAlone => Raised("AssertionError")

\* with_overrides(cache_serialize=<promise>) raised AssertionError on a node
\* whose cache_serializable was set before and is kept.
C5_Witness ==
    /\ Called
    /\ args = [NoArgs EXCEPT !.cache_serialize = Promise]
    /\ Raised("AssertionError")
    /\ result.at = "cache_serialize"
    /\ WrittenMetadata(node).cache_serializable = PyTrue

(***************************************************************************)
(* C6: after any sequence of with_overrides calls, failed ones included,   *)
(* no static field of the node holds a promise: not the id, the aliases,   *)
(* a resource entry, the extended resources, the container image, the pod  *)
(* template, the task config, nor any metadata field.                      *)
(***************************************************************************)
StaticFieldHoldsPromise(n) ==
    \/ CheckedFieldHoldsPromise(n)
    \/ \E i \in 1..Len(n.aliases.items) : IsPromise(n.aliases.items[i].alias)
    \/ IsPromise(n.task_config)
    \/ \E md \in {n.metadata, n.sub_node_metadata} :
           IsPromise(md.name) \/ IsPromise(md.timeout)

C6_NoPromiseInStaticFields == ~StaticFieldHoldsPromise(node)

(***************************************************************************)
(* C7: timeout omitted leaves the metadata timeout unchanged; None sets a  *)
(* zero duration; an integer n sets n seconds; a timedelta is stored as    *)
(* is; any other value raises ValueError and the timeout is unchanged.     *)
(* (The call reads timeout after the arguments that precede                *)
(* _override_node_metadata.)                                               *)
(***************************************************************************)
C7_TimeoutMapping ==
    (Called /\ result.at \notin SitesBeforeMetadata) =>
        LET before == WrittenMetadata(pre).timeout
            after == WrittenMetadata(node).timeout
            t == args.timeout
        IN  /\ t = TIMEOUT_OVERRIDE_SENTINEL => after = before
            /\ t = PyNone => after = Val("timedelta", "0")
            /\ t.t = "int" => after = Val("timedelta", t.v)
            /\ t.t = "timedelta" => after = t
            /\ (t # TIMEOUT_OVERRIDE_SENTINEL /\ t.t \notin {"NoneType", "int", "timedelta"})
                   => /\ Raised("ValueError")
                      /\ after = before

\* timeout=None reset a timeout of 100 seconds to zero.
C7_Witness ==
    /\ Called
    /\ args.timeout = PyNone
    /\ WrittenMetadata(pre).timeout = Val("timedelta", "100")
    /\ WrittenMetadata(node).timeout = Val("timedelta", "0")

(***************************************************************************)
(* C8: requests given without limits (and without resources) succeeds,     *)
(* logs a warning, and leaves the node's resources with limits == [] and   *)
(* the requests entries exactly as given; limits given without requests    *)
(* leaves requests == [] and the limits entries as given.                  *)
(***************************************************************************)
RequestsGiven == <<ResourceEntry("cpu", PyStr("1")), ResourceEntry("mem", PyStr("100"))>>

LimitsGiven ==
    <<ResourceEntry("cpu", PyStr("2")), ResourceEntry("mem", PyStr("200")),
      ResourceEntry("ephemeral_storage", PyStr("1Gi"))>>

C8_RequestsWithoutLimits ==
    /\ (Called /\ args = [NoArgs EXCEPT !.requests = Resources("req")]) =>
           /\ Raised("ok")
           /\ "requests_without_limits" \in result.log
           /\ node.resources.some
           /\ node.resources.limits = <<>>
           /\ node.resources.requests = RequestsGiven
    /\ (Called /\ args = [NoArgs EXCEPT !.limits = Resources("lim")]) =>
           /\ Raised("ok")
           /\ node.resources.some
           /\ node.resources.requests = <<>>
           /\ node.resources.limits = LimitsGiven

\* Requests alone replaced an override that had limits.
C8_Witness ==
    /\ Called
    /\ args = [NoArgs EXCEPT !.requests = Resources("req")]
    /\ pre.resources.limits # <<>>
    /\ node.resources.limits = <<>>
    /\ "requests_without_limits" \in result.log


(***************************************************************************)
(* What the claims about cache, retries, task_config and names read.       *)
(***************************************************************************)
\* The two Cache objects that carry a version.
VersionedCaches == {"v1", "v1_serialize"}

\* with_overrides(cache=True, cache_version=v, cache_serialize=s) for the v
\* and s of the Cache object c.
LegacyForm(c) ==
    [NoArgs EXCEPT !.cache = PyTrue, !.cache_version = CacheVersion(c),
                   !.cache_serialize = CacheSerialize(c)]

\* with_overrides(cache=Cache(version=v, serialize=s))
RichForm(c) == [NoArgs EXCEPT !.cache = Cache(c)]

\* The sites at which a call can raise before it reads task_config.
SitesBeforeTaskConfig ==
    SitesBeforeResources \cup
    {"resources_with_requests_or_limits", "requests", "limits",
     "resources.requests", "resources.limits"}

(***************************************************************************)
(* C15: with_overrides(cache=True, cache_version=v, cache_serialize=s) and *)
(* with_overrides(cache=Cache(version=v, serialize=s)) leave the same node *)
(* metadata: cacheable True, cache_version v, cache_serializable s.        *)
(***************************************************************************)
C15_LegacyEqualsRich ==
    \A c \in VersionedCaches :
        (Called /\ args \in {LegacyForm(c), RichForm(c)}) =>
            /\ Raised("ok")
            /\ WrittenMetadata(node).cacheable = PyTrue
            /\ WrittenMetadata(node).cache_version = CacheVersion(c)
            /\ WrittenMetadata(node).cache_serializable = CacheSerialize(c)
            /\ node = with_overrides(pre, LegacyForm(c)).node
            /\ node = with_overrides(pre, RichForm(c)).node

\* Cache(version="v1", serialize=True) on a node that was not cacheable.
C15_Witness ==
    /\ Called
    /\ args = RichForm("v1_serialize")
    /\ WrittenMetadata(pre).cacheable = PyFalse
    /\ WrittenMetadata(pre).cache_serializable = PyFalse
    /\ WrittenMetadata(node).cacheable = PyTrue
    /\ WrittenMetadata(node).cache_version = PyStr("v1")
    /\ WrittenMetadata(node).cache_serializable = PyTrue

(***************************************************************************)
(* C16: with_overrides with retries = n, n not None, sets the retry        *)
(* strategy of the node metadata to RetryStrategy(n); with retries None or *)
(* omitted the retry strategy stays as it was.  (A call that raises before *)
(* _override_node_metadata reads retries writes nothing.)                  *)
(***************************************************************************)
C16_Retries ==
    Called =>
        /\ (/\ ~IsNone(args.retries)
            /\ ~IsPromise(args.retries)
            /\ result.at \notin SitesBeforeMetadata \cup {"timeout"})
           => WrittenMetadata(node).retries = Val("RetryStrategy", args.retries.v)
        /\ IsNone(args.retries) =>
               WrittenMetadata(node).retries = WrittenMetadata(pre).retries

\* retries=3 replaced a strategy of 2 retries, and a later call without
\* retries kept what it found.
C16_Witness ==
    /\ Called
    /\ args.retries = PyInt("3")
    /\ WrittenMetadata(pre).retries = Val("RetryStrategy", "2")
    /\ WrittenMetadata(node).retries = Val("RetryStrategy", "3")

(***************************************************************************)
(* C17: a task_config override is accepted only when the new value has     *)
(* exactly the type of the node's current task config; a value of any      *)
(* other type, a subtype included, raises ValueError and leaves the task   *)
(* config as it was.                                                       *)
(***************************************************************************)
C17_ExactTypeOnly ==
    (/\ Called
     /\ ~IsNone(args.task_config)
     /\ result.at \notin SitesBeforeTaskConfig)
    => /\ args.task_config.t = pre.task_config.t => node.task_config = args.task_config
       /\ args.task_config.t # pre.task_config.t =>
              /\ Raised("ValueError")
              /\ result.at = "task_config"
              /\ node.task_config = pre.task_config

\* What the code does: a value of an unrelated type is refused, an instance
\* of the current type or of a subclass of it is stored.
C17_InstanceAccepted ==
    (/\ Called
     /\ ~IsNone(args.task_config)
     /\ result.at \notin SitesBeforeTaskConfig)
    => IF IsInstance(args.task_config, pre.task_config.t)
       THEN node.task_config = args.task_config
       ELSE /\ Raised("ValueError")
            /\ node.task_config = pre.task_config

(***************************************************************************)
(* C18: node_name rewrites only the id of the node, to the DNS-safe form   *)
(* of the name given, and leaves the name in the metadata as it was; name  *)
(* rewrites only the name in the metadata and leaves the id as it was; a   *)
(* call with neither leaves both as they were.                             *)
(***************************************************************************)
C18_NodeNameAndName ==
    Called =>
        /\ (~IsNone(args.node_name) /\ ~IsPromise(args.node_name)) =>
               node.id = dnsify(args.node_name.v)
        /\ IsNone(args.node_name) => node.id = pre.id
        /\ (~IsNone(args.name) /\ result.at \notin SitesBeforeCache) =>
               WrittenMetadata(node).name = args.name
        /\ IsNone(args.name) => WrittenMetadata(node).name = WrittenMetadata(pre).name

\* node_name="t_1" alone: the id became "t-1" and the name stayed.
C18_Witness ==
    /\ Called
    /\ OnlyArgs({"node_name"})
    /\ args.node_name = PyStr("t_1")
    /\ pre.id # "t-1"
    /\ node.id = "t-1"
    /\ WrittenMetadata(node).name = WrittenMetadata(pre).name

(***************************************************************************)
(* C19: with_overrides(cache=True) without cache_version is taken as a     *)
(* default cache policy (serialize False unless cache_serialize is given): *)
(* the call returns without an error and the node metadata becomes         *)
(* cacheable.                                                              *)
(***************************************************************************)
C19_DefaultCachePolicy ==
    (/\ Called
     /\ args.cache = PyTrue
     /\ IsNone(args.cache_version)
     /\ ~IsPromise(args.cache_serialize)
     /\ result.at \notin SitesBeforeCache)
    => /\ Raised("ok")
       /\ WrittenMetadata(node).cacheable = PyTrue


(***************************************************************************)
(* What the claims about whole override calls read.                        *)
(***************************************************************************)
\* The metadata record a call does not write.
OtherMetadata(n) ==
    IF n.entity = "ArrayNodeMapTask" THEN n.metadata ELSE n.sub_node_metadata

\* What _cacheable is set to when a cache argument is given and accepted.
CacheableGiven(cache) == IF IsCache(cache) THEN PyTrue ELSE cache

\* Every metadata field the call supplies holds the value supplied, in md.
MetadataHoldsArgs(md) ==
    /\ args.timeout.t = "int" => md.timeout = Timedelta(args.timeout.v)
    /\ args.timeout.t = "timedelta" => md.timeout = args.timeout
    /\ IsNone(args.timeout) => md.timeout = Timedelta("0")
    /\ ~IsNone(args.retries) => md.retries = Val("RetryStrategy", args.retries.v)
    /\ ~IsNone(args.interruptible) => md.interruptible = args.interruptible
    /\ ~IsNone(args.name) => md.name = args.name
    /\ ~IsNone(args.cache) => md.cacheable = CacheableGiven(args.cache)
    /\ ~IsNone(args.cache_version) => md.cache_version = args.cache_version
    /\ ~IsNone(args.cache_serialize) => md.cache_serializable = args.cache_serialize
    /\ IsCache(args.cache) =>
           /\ md.cache_version = CacheVersion(args.cache.v)
           /\ md.cache_serializable = CacheSerialize(args.cache.v)

(***************************************************************************)
(* C26: on a node whose entity is an ArrayNodeMapTask the metadata         *)
(* overrides (timeout, retries, interruptible, name, cache, cache_version, *)
(* cache_serialize) are written to the entity's sub_node_metadata and the  *)
(* node's own metadata stays as it was; on any other node they are written *)
(* to the node's own metadata.                                             *)
(***************************************************************************)
C26_MappedNodeMetadata ==
    Called =>
        /\ OtherMetadata(node) = OtherMetadata(pre)
        /\ Raised("ok") =>
               IF node.entity = "ArrayNodeMapTask"
               THEN MetadataHoldsArgs(node.sub_node_metadata)
               ELSE MetadataHoldsArgs(node.metadata)

\* Every metadata field overridden on a mapped node whose own metadata held
\* other values.
C26_Witness ==
    /\ Called
    /\ Raised("ok")
    /\ args = FullCall
    /\ node.entity = "ArrayNodeMapTask"
    /\ node.metadata = DefaultMetadata
    /\ node.sub_node_metadata.name = PyStr("foo")
    /\ node.sub_node_metadata.timeout = Timedelta("10")
    /\ node.sub_node_metadata.cacheable = PyTrue

(***************************************************************************)
(* C27: overrides are idempotent and the last write wins: a with_overrides *)
(* call that succeeded, made again with the same arguments, succeeds and   *)
(* leaves the node as the first left it (aliases are replaced, not merged  *)
(* or accumulated); and when two successive calls both supply a field the  *)
(* node holds the value of the later call.                                 *)
(***************************************************************************)
C27_IdempotentLastWriteWins ==
    (Called /\ Raised("ok")) =>
        /\ with_overrides(node, args).exc = "none"
        /\ with_overrides(node, args).node = node
        /\ ~IsNone(args.node_name) => node.id = dnsify(args.node_name.v)
        /\ ~IsNone(args.aliases) => node.aliases = AliasList(args.aliases)
        /\ ~IsNone(args.task_config) => node.task_config = args.task_config
        /\ ~IsNone(args.container_image) => node.container_image = args.container_image
        /\ ~IsNone(args.pod_template) => node.pod_template = args.pod_template
        /\ (~IsNone(args.accelerator) \/ ~IsNone(args.shared_memory)) =>
               node.extended_resources =
                   construct_extended_resources(args.accelerator, args.shared_memory)
        /\ (~IsNone(args.requests) \/ ~IsNone(args.limits)) =>
               node.resources =
                   convert_resources_to_resource_model(args.requests, args.limits)
        /\ MetadataHoldsArgs(WrittenMetadata(node))

\* A call that sets every field replaced the aliases an earlier call had
\* set.
C27_Witness ==
    /\ ncalls = 2
    /\ Raised("ok")
    /\ args = FullCall
    /\ pre.aliases = AliasList(Dict("a2"))
    /\ node.aliases = AliasList(Dict("a1"))
    /\ node.aliases # pre.aliases

\* The place of each raise site in the order in which with_overrides and
\* _override_node_metadata handle the fields.
SiteRank(at) ==
    CASE at = "node_name" -> 1
      [] at = "aliases" -> 2
      [] at \in {"resources_with_requests_or_limits", "requests", "limits",
                 "resources.requests", "resources.limits"} -> 3
      [] at = "task_config" -> 4
      [] at = "container_image" -> 5
      [] at \in {"accelerator", "shared_memory"} -> 6
      [] at = "timeout" -> 7
      [] at = "retries" -> 8
      [] at = "interruptible" -> 9
      [] at \in {"cache", "deprecated_cache_parameters", "cache.version"} -> 11
      [] at = "cache_version" -> 12
      [] at = "cache_serialize" -> 13
      [] at = "podtemplate" -> 14

\* The fields handled at place k or later are as they were before the call.
UnchangedFrom(k) ==
    /\ k <= 1 => node.id = pre.id
    /\ k <= 2 => node.aliases = pre.aliases
    /\ k <= 3 => node.resources = pre.resources
    /\ k <= 4 => node.task_config = pre.task_config
    /\ k <= 5 => node.container_image = pre.container_image
    /\ k <= 6 => node.extended_resources = pre.extended_resources
    /\ k <= 7 => WrittenMetadata(node).timeout = WrittenMetadata(pre).timeout
    /\ k <= 8 => WrittenMetadata(node).retries = WrittenMetadata(pre).retries
    /\ k <= 9 => WrittenMetadata(node).interruptible = WrittenMetadata(pre).interruptible
    /\ k <= 10 => WrittenMetadata(node).name = WrittenMetadata(pre).name
    /\ k <= 11 => WrittenMetadata(node).cacheable = WrittenMetadata(pre).cacheable
    /\ k <= 12 => WrittenMetadata(node).cache_version = WrittenMetadata(pre).cache_version
    /\ k <= 13 => WrittenMetadata(node).cache_serializable =
                      WrittenMetadata(pre).cache_serializable
    /\ k <= 14 => node.pod_template = pre.pod_template
    /\ OtherMetadata(node) = OtherMetadata(pre)
    /\ node.entity = pre.entity

\* The call raised.
CallRaised == Called /\ result.kind \in {"ValueError", "AssertionError"}

(***************************************************************************)
(* C28 as stated: a with_overrides call that raises ValueError or          *)
(* AssertionError leaves the node exactly as it was before the call: id,   *)
(* aliases, resources, extended resources, container image, pod template,  *)
(* task config and every metadata field.                                   *)
(***************************************************************************)
C28_RaiseLeavesNode == CallRaised => node = pre

(***************************************************************************)
(* C28 amended: a with_overrides call that raises leaves as they were the  *)
(* field whose validation raised and every field handled after it, in the  *)
(* order id, aliases, resources, task config, container image, extended    *)
(* resources, metadata timeout, retries, interruptible, name, cacheable,   *)
(* cache_version, cache_serializable, pod template.                        *)
(***************************************************************************)
C28_RaiseLeavesLaterFields == CallRaised => UnchangedFrom(SiteRank(result.at))

\* A call refused for its container image after it had rewritten the id,
\* the aliases and the resources.
C28_Witness ==
    /\ CallRaised
    /\ result.at = "container_image"
    /\ node.id # pre.id
    /\ node.aliases # pre.aliases
    /\ node.container_image = pre.container_image
    /\ node.metadata = pre.metadata
    /\ node.pod_template = pre.pod_template

(***************************************************************************)
(* C29: a with_overrides call that supplies no cache argument (one that    *)
(* overrides only timeout, or one with no argument at all) leaves the      *)
(* cacheable flag of the node metadata as it was.                          *)
(***************************************************************************)
C29_CacheableKept ==
    (Called /\ IsNone(args.cache)) =>
        WrittenMetadata(node).cacheable = WrittenMetadata(pre).cacheable

(***************************************************************************)
(* C30: a with_overrides call that supplies neither accelerator nor        *)
(* shared_memory leaves the extended resources of the node as they were,   *)
(* so that an accelerator or a shared memory set by an earlier call is     *)
(* still there after later calls that override other fields.               *)
(***************************************************************************)
C30_ExtendedResourcesKept ==
    (Called /\ IsNone(args.accelerator) /\ IsNone(args.shared_memory)) =>
        node.extended_resources = pre.extended_resources

(***************************************************************************)
(* The file value: FlyteFile and FlyteFilePathTransformer.                 *)
(***************************************************************************)
RemoteUris == {"s3://bucket/f.csv", "s3://bucket/g.txt"}

\* Local paths that name an existing regular file, and one that does not.
LocalFiles == {"/data/f.csv", "/data/g.bin"}

MissingFiles == {"/data/missing.csv"}

Uris == RemoteUris \cup LocalFiles \cup MissingFiles

\* What file_access.get_random_local_path can return.
ScratchPaths == {"/tmp/flyte/local_1", "/tmp/flyte/local_2"}

\* Where put_raw_data can store an upload when raw_output_prefix is remote.
RawRemote == {"s3://raw/r1/f", "s3://raw/r2/f"}

\* Where put_raw_data stores an upload when raw_output_prefix is the local
\* sandbox.
RawLocal == {"/tmp/sandbox/raw/r1/f"}

\* Upload destinations given by the user as remote_path: a plain one, and
\* one whose object name holds the characters %20.
UserDest == "s3://bucket/dest.csv"

EscapedDest == "s3://bucket/d%20e.csv"

\* urllib.parse.unquote
unquote(u) == IF u = "s3://bucket/d%20e.csv" THEN "s3://bucket/d e.csv" ELSE u

UploadUris == RawRemote \cup {UserDest, EscapedDest, unquote(EscapedDest)}

\* ctx.file_access.is_remote(path)
is_remote(path) == path \in RemoteUris \cup UploadUris

\* os.path.isfile(path)
isfile(path) == path \in LocalFiles

\* The default downloader, noop.
Noop == [fn |-> "noop", remote_path |-> None, local_path |-> None]

\* partial(ctx.file_access.get_data, remote_path=..., local_path=...)
GetData(remote, local) == [fn |-> "get_data", remote_path |-> remote, local_path |-> local]

\* No instance yet.
NoFile ==
    [exists |-> FALSE, path |-> None, fmt |-> None, remote_path |-> None,
     downloaded |-> FALSE, remote_source |-> None, local_path |-> None,
     downloader |-> Noop, metadata |-> None]

\* FlyteFile[fmt].__init__(path, downloader, remote_path) with the default
\* metadata; random is what get_random_local_path returns when the path is
\* remote.
FlyteFile(fmt, path, downloader, remote_path, random) ==
    [exists |-> TRUE, path |-> path, fmt |-> fmt, remote_path |-> remote_path,
     downloaded |-> FALSE,
     remote_source |-> IF is_remote(path) THEN path ELSE None,
     local_path |-> IF is_remote(path) THEN random ELSE path,
     downloader |-> IF is_remote(path) THEN GetData(path, random) ELSE downloader,
     metadata |-> None]

\* The metadata of a literal or of a FlyteFile: none, or a dict.
Metadatas == {None, "{'k': 'v'}"}

\* A Blob literal with no metadata: the URI and dimensionality of the Blob
\* and the metadata of the Literal that holds it.
Literal(uri, dim) == [uri |-> uri, dimensionality |-> dim, metadata |-> None]

Literals == {[Literal(u, "SINGLE") EXCEPT !.metadata = m] : u \in Uris, m \in Metadatas}
            \cup {Literal(u, "MULTIPART") : u \in RemoteUris}

FlyteFileTypes == {"FlyteFile", "FlyteFile[csv]"}

ExpectedTypes == {"os.PathLike", "str"} \cup FlyteFileTypes

\* FlyteFilePathTransformer.get_format
get_format(t) == IF t = "FlyteFile[csv]" THEN "csv" ELSE ""

Failed(exc) == [exc |-> exc, ff |-> NoFile]

\* The conversion of a Blob literal that looks at the expected type before
\* it looks for the file.
to_python_value_given_type_first(files, lv, expected_python_type, random) ==
    IF lv.dimensionality # "SINGLE" THEN Failed("TypeTransformerFailedError")
    ELSE IF expected_python_type = "os.PathLike"
    THEN [exc |-> "none",
          ff |-> [FlyteFile("", lv.uri, Noop, None, random) EXCEPT !.metadata = lv.metadata]]
    ELSE IF expected_python_type \notin FlyteFileTypes THEN Failed("TypeError")
    ELSE IF ~is_remote(lv.uri) /\ lv.uri \notin files THEN Failed("FlyteAssertion")
    ELSE IF ~is_remote(lv.uri)
    THEN [exc |-> "none",
          ff |-> [FlyteFile(get_format(expected_python_type), lv.uri, Noop, None, random)
                      EXCEPT !.metadata = lv.metadata]]
    ELSE LET made == FlyteFile(get_format(expected_python_type), random,
                               GetData(lv.uri, random), None, random)
         IN  [exc |-> "none",
              ff |-> [made EXCEPT !.metadata = lv.metadata, !.remote_source = lv.uri]]

\* FlyteFilePathTransformer.async_to_python_value on a Blob literal, files
\* being the local paths that name a regular file: the exception raised or
\* the FlyteFile returned.
to_python_value_given(files, lv, expected_python_type, random) ==
    IF lv.dimensionality # "SINGLE" THEN Failed("TypeTransformerFailedError")
    ELSE IF ~is_remote(lv.uri) /\ lv.uri \notin files THEN Failed("FlyteAssertion")
    ELSE IF expected_python_type = "os.PathLike"
    THEN [exc |-> "none",
          ff |-> [FlyteFile("", lv.uri, Noop, None, random) EXCEPT !.metadata = lv.metadata]]
    ELSE IF expected_python_type \notin FlyteFileTypes THEN Failed("TypeError")
    ELSE IF ~is_remote(lv.uri)
    THEN [exc |-> "none",
          ff |-> [FlyteFile(get_format(expected_python_type), lv.uri, Noop, None, random)
                      EXCEPT !.metadata = lv.metadata]]
    ELSE LET made == FlyteFile(get_format(expected_python_type), random,
                               GetData(lv.uri, random), None, random)
         IN  [exc |-> "none",
              ff |-> [made EXCEPT !.metadata = lv.metadata, !.remote_source = lv.uri]]

\* async_to_python_value when no file has been written since the start.
async_to_python_value(lv, expected_python_type, random) ==
    to_python_value_given({u \in Uris : isfile(u)}, lv, expected_python_type, random)

(***************************************************************************)
(* The forms of literal to_python_value takes.                             *)
(***************************************************************************)
\* A field of a Scalar that is not set.
Unset == <<>>

IsSet(field) == DOMAIN field # {}

\* d.get(key, None)
Get(d, key) == IF key \in DOMAIN d THEN d[key] ELSE None

\* The mappings a serialized FlyteFile decodes to: with a path, with a null
\* path and with no path.
Mappings ==
    {[path |-> u, metadata |-> m] : u \in Uris \cup {None}, m \in Metadatas}
    \cup {[metadata |-> m] : m \in Metadatas}

\* msgpack.dumps(d) and msgpack.loads(bytes)
packb(d) == [msgpack_bytes_of |-> d]

loads(bytes) == bytes.msgpack_bytes_of

\* The protobuf Struct of a mapping, and json.loads(MessageToJson(struct)).
Struct(d) == [fields |-> d]

json_loads(struct) == struct.fields

MESSAGEPACK == "msgpack"

\* Binary(value, tag)
Binary(tag, value) == [tag |-> tag, value |-> value]

\* Literal(scalar=Scalar(binary=..., generic=..., blob=...)); blob is a
\* Literal as above.
Scalar(binary, generic, blob) ==
    [scalar |-> TRUE, binary |-> binary, generic |-> generic, blob |-> blob]

\* A literal with no scalar (a collection, a map).
NoScalar == [scalar |-> FALSE, binary |-> Unset, generic |-> Unset, blob |-> Unset]

ScalarLiterals ==
    {Scalar(Unset, Unset, l) : l \in Literals}
    \cup {Scalar(Binary(t, packb(d)), Unset, Unset) : t \in {MESSAGEPACK, "json"}, d \in Mappings}
    \cup {Scalar(Unset, Struct(d), Unset) : d \in Mappings}
    \cup {Scalar(Binary(MESSAGEPACK, packb([path |-> "/data/f.csv", metadata |-> None])),
                  Struct([path |-> "/data/g.bin", metadata |-> None]), Unset)}
    \cup {Scalar(Unset, Unset, Unset), NoScalar}

\* dict_to_flyte_file
dict_to_flyte_file(files, dict_obj, expected_python_type, random) ==
    LET path == Get(dict_obj, "path")
        metadata == Get(dict_obj, "metadata")
    IN  IF path = None THEN Failed("ValueError")
        ELSE to_python_value_given(files, [Literal(path, "SINGLE") EXCEPT !.metadata = metadata],
                                   expected_python_type, random)

\* from_binary_idl
from_binary_idl(files, binary_idl_object, expected_python_type, random) ==
    IF binary_idl_object.tag = MESSAGEPACK
    THEN dict_to_flyte_file(files, loads(binary_idl_object.value), expected_python_type, random)
    ELSE Failed("TypeTransformerFailedError")

\* from_generic_idl
from_generic_idl(files, generic, expected_python_type, random) ==
    dict_to_flyte_file(files, json_loads(generic), expected_python_type, random)

\* The conversion that looks at the generic form before the binary one.
to_python_value_generic_first(files, lv, expected_python_type, random) ==
    IF lv.scalar /\ IsSet(lv.generic)
    THEN from_generic_idl(files, lv.generic, expected_python_type, random)
    ELSE IF lv.scalar /\ IsSet(lv.binary)
    THEN from_binary_idl(files, lv.binary, expected_python_type, random)
    ELSE IF ~lv.scalar \/ ~IsSet(lv.blob) THEN Failed("TypeTransformerFailedError")
    ELSE to_python_value_given(files, lv.blob, expected_python_type, random)

\* FlyteFilePathTransformer.async_to_python_value on any literal.
to_python_value(files, lv, expected_python_type, random) ==
    IF lv.scalar /\ IsSet(lv.binary)
    THEN from_binary_idl(files, lv.binary, expected_python_type, random)
    ELSE IF lv.scalar /\ IsSet(lv.generic)
    THEN from_generic_idl(files, lv.generic, expected_python_type, random)
    ELSE IF ~lv.scalar \/ ~IsSet(lv.blob) THEN Failed("TypeTransformerFailedError")
    ELSE to_python_value_given(files, lv.blob, expected_python_type, random)

\* The last to_python_value call: its literal, the expected type and the
\* scratch path it could allocate.
NoRequest == [made |-> FALSE, lv |-> NoScalar, expected |-> None, random |-> None]

Request(lv, expected, random) ==
    [made |-> TRUE, lv |-> lv, expected |-> expected, random |-> random]

\* What a path access that raised leaves in rets.
RaisedInDownloader == "raised"

\* self._downloader(): the get_data calls it makes and whether it raises.
RunDownloader(d, ok) ==
    [calls |-> IF d.fn = "get_data"
               THEN <<[remote_path |-> d.remote_path, local_path |-> d.local_path]>>
               ELSE <<>>,
     raised |-> d.fn = "get_data" /\ ~ok]

\* __fspath__ that does not set _downloaded.
fspath_never_marks(f, ok) ==
    LET r == RunDownloader(f.downloader, ok)
    IN  IF r.raised THEN [ff |-> f, calls |-> r.calls, ret |-> RaisedInDownloader]
        ELSE [ff |-> f, calls |-> r.calls, ret |-> f.local_path]

\* FlyteFile.__fspath__ run by one thread from start to end; ok tells
\* whether get_data succeeds.
fspath(f, ok) ==
    IF ~f.downloaded
    THEN LET r == RunDownloader(f.downloader, ok)
         IN  IF r.raised THEN [ff |-> f, calls |-> r.calls, ret |-> RaisedInDownloader]
             ELSE [ff |-> [f EXCEPT !.downloaded = TRUE], calls |-> r.calls,
                   ret |-> f.local_path]
    ELSE [ff |-> f, calls |-> <<>>, ret |-> f.local_path]

\* FlyteFile.download
download(f, ok) == fspath(f, ok)

MaxAccesses == 3

NumThreads == 2

Threads == 1..NumThreads

InitFile ==
    /\ GraphIdle
    /\ OverrideIdle
    /\ TransformerIdle
    /\ ff = NoFile
    /\ gets = <<>>
    /\ puts = <<>>
    /\ rets = <<>>
    /\ ferr = "none"
    /\ pc = [t \in Threads |-> "idle"]
    /\ asked = NoRequest

\* FlyteFile(path=..., remote_path=...) called by user code.
Construct(path, remote_path, random) ==
    /\ ~ff.exists
    /\ ferr = "none"
    /\ ff' = FlyteFile("", path, Noop, remote_path, random)
    /\ UNCHANGED <<gets, puts, rets, ferr, pc, asked, graphVars, overrideVars, transformerVars>>

\* The transformer turns a literal into a task input.
ToPythonValue(lv, expected, random) ==
    /\ ~ff.exists
    /\ ferr = "none"
    /\ LET r == to_python_value({u \in Uris : isfile(u)}, lv, expected, random)
       IN  ff' = r.ff /\ ferr' = r.exc
    /\ asked' = Request(lv, expected, random)
    /\ UNCHANGED <<gets, puts, rets, pc, graphVars, overrideVars, transformerVars>>

Access(r) ==
    /\ ff' = r.ff
    /\ gets' = gets \o r.calls
    /\ rets' = Append(rets, r.ret)
    /\ UNCHANGED <<puts, ferr, pc, asked, graphVars, overrideVars, transformerVars>>

\* os.fspath(ff) / open(ff)
Fspath ==
    /\ ff.exists
    /\ Len(rets) < MaxAccesses
    /\ \E ok \in BOOLEAN : Access(fspath(ff, ok))

\* ff.download()
Download ==
    /\ ff.exists
    /\ Len(rets) < MaxAccesses
    /\ \E ok \in BOOLEAN : Access(download(ff, ok))

NextFile ==
    \/ \E p \in Uris, rp \in {None, "False"}, r \in ScratchPaths : Construct(p, rp, r)
    \/ \E lv \in ScalarLiterals, e \in ExpectedTypes, r \in ScratchPaths :
           ToPythonValue(lv, e, r)
    \/ Fspath
    \/ Download

SpecFile == InitFile /\ [][NextFile]_vars

(***************************************************************************)
(* __fspath__ run by several threads on one instance, a step per line.     *)
(***************************************************************************)
\* The instances construction can leave.
FileInstances ==
    {FlyteFile("", p, Noop, None, r) : p \in RemoteUris \cup LocalFiles, r \in ScratchPaths}
    \cup {async_to_python_value(lv, e, r).ff :
              lv \in {l \in Literals : l.dimensionality = "SINGLE" /\ l.uri \notin MissingFiles},
              e \in FlyteFileTypes, r \in ScratchPaths}

InitFileConc ==
    /\ GraphIdle
    /\ OverrideIdle
    /\ TransformerIdle
    /\ ff \in FileInstances
    /\ gets = <<>>
    /\ puts = <<>>
    /\ rets = <<>>
    /\ ferr = "none"
    /\ pc = [t \in Threads |-> "idle"]
    /\ asked = NoRequest

Started == Len(rets) + Cardinality({t \in Threads : pc[t] # "idle"})

\* A thread calls __fspath__.
Enter(t) ==
    /\ pc[t] = "idle"
    /\ Started < MaxAccesses
    /\ pc' = [pc EXCEPT ![t] = "check"]
    /\ UNCHANGED <<ff, gets, puts, rets, ferr, asked, graphVars, overrideVars, transformerVars>>

\* if not self._downloaded:
CheckDownloaded(t) ==
    /\ pc[t] = "check"
    /\ pc' = [pc EXCEPT ![t] = IF ff.downloaded THEN "return" ELSE "call"]
    /\ UNCHANGED <<ff, gets, puts, rets, ferr, asked, graphVars, overrideVars, transformerVars>>

\* self._downloader()
CallDownloader(t) ==
    /\ pc[t] = "call"
    /\ \E ok \in BOOLEAN :
           LET r == RunDownloader(ff.downloader, ok)
           IN  /\ gets' = gets \o r.calls
               /\ IF r.raised
                  THEN /\ rets' = Append(rets, RaisedInDownloader)
                       /\ pc' = [pc EXCEPT ![t] = "idle"]
                  ELSE /\ rets' = rets
                       /\ pc' = [pc EXCEPT ![t] = "set"]
    /\ UNCHANGED <<ff, puts, ferr, asked, graphVars, overrideVars, transformerVars>>

\* self._downloaded = True
SetDownloaded(t) ==
    /\ pc[t] = "set"
    /\ ff' = [ff EXCEPT !.downloaded = TRUE]
    /\ pc' = [pc EXCEPT ![t] = "return"]
    /\ UNCHANGED <<gets, puts, rets, ferr, asked, graphVars, overrideVars, transformerVars>>

\* return self._local_path
Return(t) ==
    /\ pc[t] = "return"
    /\ rets' = Append(rets, ff.local_path)
    /\ pc' = [pc EXCEPT ![t] = "idle"]
    /\ UNCHANGED <<ff, gets, puts, ferr, asked, graphVars, overrideVars, transformerVars>>

NextFileConc ==
    \E t \in Threads :
        \/ Enter(t)
        \/ CheckDownloaded(t)
        \/ CallDownloader(t)
        \/ SetDownloaded(t)
        \/ Return(t)

SpecFileConc == InitFileConc /\ [][NextFileConc]_vars

(***************************************************************************)
(* What the claims about the file value read.                              *)
(***************************************************************************)
\* The instance references a remote URI.
RemoteFile == ff.exists /\ ff.remote_source # None

\* No materializer call has raised.
MaterializerSucceeded == \A i \in 1..Len(rets) : rets[i] # RaisedInDownloader

(***************************************************************************)
(* C9: for a FlyteFile that references a remote URI, in any sequence of    *)
(* path accesses (__fspath__ / download) in which the materializer         *)
(* succeeds: construction makes no storage get or put; the first access    *)
(* calls the materializer exactly once and sets downloaded; every later    *)
(* access calls it zero times and returns the same local path.             *)
(***************************************************************************)
C9_LazyOnce ==
    (RemoteFile /\ MaterializerSucceeded) =>
        /\ puts = <<>>
        /\ rets = <<>> => gets = <<>> /\ ~ff.downloaded
        /\ rets # <<>> =>
               /\ Len(gets) = 1
               /\ ff.downloaded
               /\ \A i \in 1..Len(rets) : rets[i] = ff.local_path

\* A remote file was accessed three times and fetched once.
C9_Witness ==
    /\ RemoteFile
    /\ MaterializerSucceeded
    /\ Len(rets) = MaxAccesses
    /\ Len(gets) = 1
    /\ ff.downloaded

(***************************************************************************)
(* C10: when two or more threads access the path of one FlyteFile          *)
(* concurrently, in any interleaving of the check of downloaded, the       *)
(* materializer call and the set of downloaded, the materializer runs at   *)
(* most once.                                                              *)
(***************************************************************************)
C10_MaterializerAtMostOnce == MaterializerSucceeded => Len(gets) <= 1


(***************************************************************************)
(* The transformers: FlyteFilePathTransformer and FlytePickleTransformer,  *)
(* with the storage they read and write.                                   *)
(***************************************************************************)
\* Where to_pickle writes the serialized bytes before uploading them.
PickleScratch == {"/tmp/flyte/md5_1"}

Paths == Uris \cup ScratchPaths \cup UploadUris \cup RawLocal \cup PickleScratch

Absent == "absent"

\* The files and objects that exist before a conversion starts.
InitStore ==
    [p \in Paths |->
        CASE p = "/data/f.csv" -> "csv bytes"
          [] p = "/data/g.bin" -> "binary bytes"
          [] p = "s3://bucket/f.csv" -> "remote csv bytes"
          [] p = "s3://bucket/g.txt" -> "remote text bytes"
          [] OTHER -> Absent]

\* What magic.from_file(path, mime=True) reports for a content.
MimeOf(content) ==
    CASE content \in {"csv bytes", "remote csv bytes"} -> "text/csv"
      [] content = "remote text bytes" -> "text/plain"
      [] OTHER -> "application/octet-stream"

\* get_mime_type_from_extension
get_mime_type_from_extension(extension) ==
    IF extension = "csv" THEN {"text/csv"} ELSE {"application/octet-stream"}

\* The execution context: execution_state.is_local_execution(), whether
\* libmagic can be imported, and whether raw_output_prefix is remote.
Envs == [local_execution : BOOLEAN, magic : BOOLEAN, raw_remote : BOOLEAN]

\* The exception classes each raised exception is an instance of.
ExceptionBases ==
    [TypeTransformerFailedError |-> {"TypeError", "AssertionError", "ValueError"},
     FlyteAssertion |-> {"AssertionError"},
     ValueError |-> {},
     TypeError |-> {},
     AssertionError |-> {},
     FileNotFoundError |-> {"OSError"},
     FlyteUploadDataException |-> {},
     FlyteDownloadDataException |-> {},
     UnpicklingError |-> {},
     KeyError |-> {"LookupError"},
     LookupError |-> {},
     none |-> {}]

\* exc is an exception of the given kind.
IsKind(exc, kind) == exc # "none" /\ (exc = kind \/ kind \in ExceptionBases[exc])

(***************************************************************************)
(* Values given to to_literal.                                             *)
(***************************************************************************)
\* A python value: a FlyteFile, a str, a pathlib.Path, None or something
\* else (an int, or an object of a type no transformer is registered for).
PyValue(shape, path, f) == [shape |-> shape, path |-> path, ff |-> f, obj |-> None]

FlyteFileValues ==
    {PyValue("FlyteFile", p, FlyteFile("", p, Noop, rp, "/tmp/flyte/local_1")) :
        p \in Uris, rp \in {None, "False", UserDest, EscapedDest}}
    \cup {PyValue("FlyteFile", p,
                  [FlyteFile("", p, Noop, None, "/tmp/flyte/local_1") EXCEPT !.metadata = m]) :
              p \in Uris, m \in Metadatas}

\* A str can hold a remote URI; a pathlib.Path holds a local path.
PathValues ==
    {PyValue("str", p, NoFile) : p \in Uris}
    \cup {PyValue("Path", p, NoFile) : p \in LocalFiles \cup MissingFiles}

PyValues ==
    FlyteFileValues \cup PathValues
    \cup {PyValue("None", None, NoFile), PyValue("int", None, NoFile)}

\* Declared types: classes, and one annotation that is not a class.
DeclaredTypes == ExpectedTypes \cup {"typing.List[int]"}

IsClass(t) == t # "typing.List[int]"

\* p.is_file() on a source path.
is_file(st, p) == st[p] # Absent /\ ~is_remote(p)

\* FlytePickleTransformer.PYTHON_PICKLE_FORMAT
PYTHON_PICKLE_FORMAT == "PythonPickle"

NoLiteral ==
    [exists |-> FALSE, uri |-> None, dimensionality |-> None, format |-> None,
     metadata |-> None]

\* Literal(scalar=Scalar(blob=Blob(metadata=meta, uri=uri)))
BlobLiteral(format, uri) ==
    [exists |-> TRUE, uri |-> uri, dimensionality |-> "SINGLE", format |-> format,
     metadata |-> None]


(***************************************************************************)
(* FlyteFilePathTransformer.async_to_literal.                              *)
(***************************************************************************)
\* validate_file_type: the exception it raises, or "none".
validate_file_type(e, st, python_type, source_path) ==
    IF get_format(python_type) = "" THEN "none"
    ELSE IF ~e.magic THEN "none"
    ELSE IF is_remote(source_path) THEN "none"
    ELSE IF st[source_path] = Absent THEN "FileNotFoundError"
    ELSE IF MimeOf(st[source_path]) \notin
                get_mime_type_from_extension(get_format(python_type))
    THEN "ValueError"
    ELSE "none"

\* A call of file_access.put_data / put_raw_data.
PutCall(op, source, dest) == [op |-> op, source |-> source, dest |-> dest]

\* What a conversion to a literal leaves: the exception raised or the
\* literal returned, the storage puts made, and the storage after them.
Converted(exc, literal, calls, st) ==
    [exc |-> exc, lit |-> literal, puts |-> calls, store |-> st]

\* The upload branch (lines 602-612): put_data to the destination given, or
\* put_raw_data to loc, a location the storage picks; the storage reports
\* the destination it wrote and the URI of the literal is that, unquoted.
UploadBranch(st, format, source_path, remote_path, loc) ==
    LET dest == IF remote_path # None THEN remote_path ELSE loc
        call == PutCall(IF remote_path # None THEN "put_data" ELSE "put_raw_data",
                        source_path, dest)
    IN  IF st[source_path] = Absent
        THEN Converted("FlyteUploadDataException", NoLiteral, <<call>>, st)
        ELSE Converted("none", BlobLiteral(format, unquote(dest)), <<call>>,
                       [st EXCEPT ![dest] = st[source_path]])

\* Lines 602-616: upload, or take the source path as the URI.
ReturnBranch(should_upload, st, format, source_path, remote_path, loc) ==
    IF should_upload
    THEN UploadBranch(st, format, source_path, remote_path, loc)
    ELSE Converted("none", BlobLiteral(format, source_path), <<>>, st)

\* Literal(..., metadata=getattr(python_val, "metadata", None)) where
\* python_val is a FlyteFile.
WithMetadata(r, metadata) ==
    IF r.lit.exists THEN [r EXCEPT !.lit.metadata = metadata] ELSE r

\* The FlyteFile branch that uploads although remote_path is False.
FlyteFileBranchIgnoresFalse(e, st, v, python_type, loc) ==
    LET source_path == v.ff.path
        format == get_format(python_type)
        should_upload ==
            /\ ~is_remote(source_path)
            /\ python_type # "os.PathLike"
            /\ ~(e.local_execution /\ v.ff.remote_path = None)
    IN  WithMetadata(
            IF v.ff.remote_source # None
            THEN Converted("none", BlobLiteral(format, v.ff.remote_source), <<>>, st)
            ELSE ReturnBranch(should_upload, st, format, source_path, None, loc),
            v.ff.metadata)

\* Lines 542-574: python_val is a FlyteFile.
FlyteFileBranch(e, st, v, python_type, loc) ==
    LET source_path == v.ff.path
        format == get_format(python_type)
        check == validate_file_type(e, st, python_type, source_path)
        should_upload ==
            /\ ~(v.ff.remote_path = "False" \/ is_remote(source_path))
            /\ python_type # "os.PathLike"
            /\ ~(e.local_execution /\ v.ff.remote_path = None)
        remote_path == IF v.ff.remote_path = "False" THEN None ELSE v.ff.remote_path
    IN  WithMetadata(
            IF check # "none" THEN Converted(check, NoLiteral, <<>>, st)
            ELSE IF v.ff.remote_source # None
            THEN Converted("none", BlobLiteral(format, v.ff.remote_source), <<>>, st)
            ELSE ReturnBranch(should_upload, st, format, source_path, remote_path, loc),
            v.ff.metadata)

\* Lines 576-596: python_val is a pathlib.Path or a str.
PathBranch(e, st, v, python_type, loc) ==
    LET source_path == v.path
        format == get_format(python_type)
        check == validate_file_type(e, st, python_type, source_path)
    IN  IF python_type \notin FlyteFileTypes
        THEN ReturnBranch(FALSE, st, format, source_path, None, loc)
        ELSE IF check # "none" THEN Converted(check, NoLiteral, <<>>, st)
        ELSE IF is_remote(source_path)
        THEN ReturnBranch(FALSE, st, format, source_path, None, loc)
        ELSE IF v.shape = "Path" /\ ~is_file(st, source_path)
        THEN Converted("ValueError", NoLiteral, <<>>, st)
        ELSE IF v.shape = "str" /\ ~is_file(st, source_path)
        THEN Converted("TypeTransformerFailedError", NoLiteral, <<>>, st)
        ELSE ReturnBranch(~(v.shape = "str" /\ e.local_execution), st, format,
                          source_path, None, loc)

\* async_to_literal that takes any declared type for os.PathLike.
async_to_literal_any_type(e, st, v, python_type, loc) ==
    IF v.shape = "None" THEN Converted("TypeTransformerFailedError", NoLiteral, <<>>, st)
    ELSE IF v.shape = "FlyteFile" THEN FlyteFileBranch(e, st, v, python_type, loc)
    ELSE IF v.shape \in {"Path", "str"} THEN PathBranch(e, st, v, python_type, loc)
    ELSE Converted("TypeTransformerFailedError", NoLiteral, <<>>, st)

\* FlyteFilePathTransformer.async_to_literal(ctx, python_val, python_type).
async_to_literal(e, st, v, python_type, loc) ==
    IF v.shape = "None" THEN Converted("TypeTransformerFailedError", NoLiteral, <<>>, st)
    ELSE IF ~IsClass(python_type) THEN Converted("TypeError", NoLiteral, <<>>, st)
    ELSE IF ~(python_type = "os.PathLike" \/ python_type \in FlyteFileTypes)
    THEN Converted("ValueError", NoLiteral, <<>>, st)
    ELSE IF v.shape = "FlyteFile" THEN FlyteFileBranch(e, st, v, python_type, loc)
    ELSE IF v.shape \in {"Path", "str"} THEN PathBranch(e, st, v, python_type, loc)
    ELSE Converted("TypeTransformerFailedError", NoLiteral, <<>>, st)

(***************************************************************************)
(* The transformer's state machine: one value converted to a literal, the  *)
(* literal converted back, the path of the result accessed.                *)
(***************************************************************************)
NoValue == [given |-> FALSE, value |-> PyValue("None", None, NoFile), python_type |-> None]

(***************************************************************************)
(* guess_python_type of the two transformers.                              *)
(***************************************************************************)
Formats == {"", "csv", PYTHON_PICKLE_FORMAT}

\* LiteralType(blob=BlobType(format, dimensionality)), and a LiteralType
\* with no blob (a simple type).
BlobType(format, dimensionality) ==
    [blob |-> TRUE, format |-> format, dimensionality |-> dimensionality]

SimpleType == [blob |-> FALSE, format |-> None, dimensionality |-> None]

LiteralTypes ==
    {BlobType(f, d) : f \in Formats, d \in {"SINGLE", "MULTIPART"}} \cup {SimpleType}

\* FlyteFile.__class_getitem__(item) for a str item: the class itself for
\* "", else the subclass whose extension is the item without leading "~"
\* and ".".
class_getitem(item) ==
    CASE item = "" -> "FlyteFile"
      [] item \in {"csv", ".csv", "~.csv"} -> "FlyteFile[csv]"
      [] item = PYTHON_PICKLE_FORMAT -> "FlyteFile[PythonPickle]"

\* What guess_python_type leaves: the exception raised or the type returned.
Guessed(exc, t) == [exc |-> exc, type |-> t]

\* guess_python_type of the file transformer without the exclusion of the
\* pickle format.
guess_python_type_any_format(literal_type) ==
    IF literal_type.blob /\ literal_type.dimensionality = "SINGLE"
    THEN Guessed("none", class_getitem(literal_type.format))
    ELSE Guessed("ValueError", None)

\* FlyteFilePathTransformer.guess_python_type
guess_python_type(literal_type) ==
    IF /\ literal_type.blob
       /\ literal_type.dimensionality = "SINGLE"
       /\ literal_type.format # PYTHON_PICKLE_FORMAT
    THEN Guessed("none", class_getitem(literal_type.format))
    ELSE Guessed("ValueError", None)

\* FlytePickleTransformer.guess_python_type
pickle_guess_python_type(literal_type) ==
    IF /\ literal_type.blob
       /\ literal_type.dimensionality = "SINGLE"
       /\ literal_type.format = PYTHON_PICKLE_FORMAT
    THEN Guessed("none", "FlytePickle")
    ELSE Guessed("ValueError", None)

\* No value has been converted to a literal again.
NoBack ==
    [made |-> FALSE, python_type |-> None, exc |-> "none", lit |-> NoLiteral, puts |-> <<>>]

NoGuess ==
    [made |-> FALSE, literal_type |-> SimpleType, file |-> Guessed("none", None),
     pickle |-> Guessed("none", None)]

\* Both transformers are asked for the python type of a LiteralType.
GuessPythonType(literal_type) ==
    /\ ~guessed.made
    /\ guessed' = [made |-> TRUE, literal_type |-> literal_type,
                   file |-> guess_python_type(literal_type),
                   pickle |-> pickle_guess_python_type(literal_type)]
    /\ UNCHANGED <<fileVars, env, store, val, lit, out, back, graphVars, overrideVars>>


InitTransformer ==
    /\ GraphIdle
    /\ OverrideIdle
    /\ ff = NoFile
    /\ gets = <<>>
    /\ puts = <<>>
    /\ rets = <<>>
    /\ ferr = "none"
    /\ pc = [t \in Threads |-> "idle"]
    /\ asked = NoRequest
    /\ env \in Envs
    /\ store = InitStore
    /\ val = NoValue
    /\ lit = NoLiteral
    /\ out = None
    /\ guessed = NoGuess
    /\ back = NoBack

\* Where put_raw_data stores an upload in this context.
RawLocations == IF env.raw_remote THEN RawRemote ELSE RawLocal

\* The local paths that name a regular file now.
FilesNow == {p \in Paths : is_file(store, p)}

\* The file transformer converts a python value to a literal.
FileToLiteral(v, python_type, loc) ==
    /\ ~val.given
    /\ ferr = "none"
    /\ val' = [given |-> TRUE, value |-> v, python_type |-> python_type]
    /\ LET r == async_to_literal(env, store, v, python_type, loc)
       IN  /\ lit' = r.lit
           /\ ferr' = r.exc
           /\ puts' = puts \o r.puts
           /\ store' = r.store
    /\ UNCHANGED <<ff, gets, rets, pc, asked, env, out, guessed, back, graphVars, overrideVars>>

\* The file transformer converts the literal back.
FileToPythonValue(expected, random) ==
    /\ lit.exists
    /\ lit.format # PYTHON_PICKLE_FORMAT
    /\ ~ff.exists
    /\ ferr = "none"
    /\ LET lv == Scalar(Unset, Unset,
                         [Literal(lit.uri, lit.dimensionality) EXCEPT !.metadata = lit.metadata])
           r == to_python_value(FilesNow, lv, expected, random)
       IN  ff' = r.ff /\ ferr' = r.exc /\ asked' = Request(lv, expected, random)
    /\ UNCHANGED <<gets, puts, rets, pc, transformerVars, graphVars, overrideVars>>

\* The converted value is returned by a task: the file transformer converts
\* it to a literal again.
FileToLiteralAgain(python_type, loc) ==
    /\ ff.exists
    /\ ~back.made
    /\ LET r == async_to_literal(env, store, PyValue("FlyteFile", ff.path, ff), python_type, loc)
       IN  /\ back' = [made |-> TRUE, python_type |-> python_type, exc |-> r.exc,
                       lit |-> r.lit, puts |-> r.puts]
           /\ store' = r.store
    /\ UNCHANGED <<fileVars, env, val, lit, out, guessed, graphVars, overrideVars>>

\* get_data(remote_path, local_path): the storage after the calls.
Fetched(st, calls) ==
    IF calls = <<>> THEN st
    ELSE [st EXCEPT ![calls[1].local_path] = st[calls[1].remote_path]]

\* The path of the converted value is accessed by the task that took it,
\* before the task returns; get_data fails when the object is not there, and
\* can fail when it is.
AccessPath ==
    /\ ff.exists
    /\ ~back.made
    /\ Len(rets) < MaxAccesses
    /\ \E ok \in BOOLEAN :
           LET r == fspath(ff, ok)
           IN  /\ r.calls # <<>> /\ ok => store[r.calls[1].remote_path] # Absent
               /\ ff' = r.ff
               /\ gets' = gets \o r.calls
               /\ rets' = Append(rets, r.ret)
               /\ store' = IF r.ret = RaisedInDownloader THEN store
                           ELSE Fetched(store, r.calls)
    /\ UNCHANGED <<puts, ferr, pc, asked, env, val, lit, out, guessed, back, graphVars, overrideVars>>


(***************************************************************************)
(* FlytePickle and FlytePickleTransformer.                                 *)
(***************************************************************************)
\* Values of types no other transformer takes.
Objects == {"[1, 2]", "Point(1, 2)"}

PyObject(o) == [PyValue("object", None, NoFile) EXCEPT !.obj = o]

PickleValues == {PyObject(o) : o \in Objects} \cup {PyValue("None", None, NoFile)}

\* cloudpickle.dumps
dumps(o) ==
    CASE o = "[1, 2]" -> "pickle of [1, 2]"
      [] o = "Point(1, 2)" -> "pickle of Point(1, 2)"

Pickles == {dumps(o) : o \in Objects}

\* cloudpickle.load
load(bytes) == CHOOSE o \in Objects : dumps(o) = bytes

\* to_pickle that returns the scratch file instead of uploading it.
to_pickle_keeps_local(st, python_val, uri, loc) ==
    Converted("none", BlobLiteral(PYTHON_PICKLE_FORMAT, uri), <<>>,
              [st EXCEPT ![uri] = dumps(python_val.obj)])

\* FlytePickle.to_pickle: the bytes are written to uri, a scratch path named
\* by their md5, and put_raw_data uploads that file to loc; the literal is
\* the one async_to_literal builds around the location returned.
to_pickle(st, python_val, uri, loc) ==
    LET str_bytes == dumps(python_val.obj)
        written == [st EXCEPT ![uri] = str_bytes]
    IN  Converted("none", BlobLiteral(PYTHON_PICKLE_FORMAT, loc),
                  <<PutCall("put_raw_data", uri, loc)>>,
                  [written EXCEPT ![loc] = written[uri]])

\* FlytePickleTransformer.async_to_literal
pickle_async_to_literal(st, python_val, uri, loc) ==
    IF python_val.shape = "None" THEN Converted("AssertionError", NoLiteral, <<>>, st)
    ELSE to_pickle(st, python_val, uri, loc)

\* What a conversion back leaves: the exception raised or the value, the
\* get_data calls made, and the storage after them.
Loaded(exc, data, calls, st) == [exc |-> exc, data |-> data, gets |-> calls, store |-> st]

\* open(uri, "rb") and cloudpickle.load
load_file(st, uri, calls) ==
    IF ~is_file(st, uri) THEN Loaded("FileNotFoundError", None, calls, st)
    ELSE IF st[uri] \notin Pickles THEN Loaded("UnpicklingError", None, calls, st)
    ELSE Loaded("none", load(st[uri]), calls, st)

\* FlytePickle.from_pickle: a remote uri is fetched to local_path first; ok
\* tells whether get_data succeeds.
from_pickle(st, uri, local_path, ok) ==
    IF is_remote(uri)
    THEN LET call == [remote_path |-> uri, local_path |-> local_path]
         IN  IF ~ok \/ st[uri] = Absent
             THEN Loaded("FlyteDownloadDataException", None, <<call>>, st)
             ELSE load_file(Fetched(st, <<call>>), local_path, <<call>>)
    ELSE load_file(st, uri, <<>>)

\* FlytePickleTransformer.async_to_python_value
pickle_async_to_python_value(st, lv, local_path, ok) == from_pickle(st, lv.uri, local_path, ok)

\* The pickle transformer converts a python value to a literal.
PickleToLiteral(v, uri, loc) ==
    /\ ~val.given
    /\ ferr = "none"
    /\ val' = [given |-> TRUE, value |-> v, python_type |-> "FlytePickle"]
    /\ LET r == pickle_async_to_literal(store, v, uri, loc)
       IN  /\ lit' = r.lit
           /\ ferr' = r.exc
           /\ puts' = puts \o r.puts
           /\ store' = r.store
    /\ UNCHANGED <<ff, gets, rets, pc, asked, env, out, guessed, back, graphVars, overrideVars>>

\* The pickle transformer converts the literal back.
PickleToPythonValue(local_path, ok) ==
    /\ lit.exists
    /\ lit.format = PYTHON_PICKLE_FORMAT
    /\ out = None
    /\ ferr = "none"
    /\ LET r == pickle_async_to_python_value(store, lit, local_path, ok)
       IN  /\ out' = r.data
           /\ ferr' = r.exc
           /\ gets' = gets \o r.gets
           /\ store' = r.store
    /\ UNCHANGED <<ff, puts, rets, pc, asked, env, val, lit, guessed, back, graphVars, overrideVars>>


NextTransformer ==
    \/ \E v \in PyValues, t \in DeclaredTypes, loc \in RawLocations :
           FileToLiteral(v, t, loc)
    \/ \E expected \in ExpectedTypes, random \in ScratchPaths :
           FileToPythonValue(expected, random)
    \/ AccessPath
    \/ \E t \in {"os.PathLike"} \cup FlyteFileTypes, loc \in RawLocations :
           FileToLiteralAgain(t, loc)
    \/ \E v \in PickleValues, uri \in PickleScratch, loc \in RawLocations :
           PickleToLiteral(v, uri, loc)
    \/ \E local_path \in ScratchPaths, ok \in BOOLEAN :
           PickleToPythonValue(local_path, ok)
    \/ \E literal_type \in LiteralTypes : GuessPythonType(literal_type)

SpecTransformer == InitTransformer /\ [][NextTransformer]_vars

(***************************************************************************)
(* What the claims about the transformers read.                            *)
(***************************************************************************)
\* The value given to to_literal is a FlyteFile.
GivenFlyteFile == val.given /\ val.value.shape = "FlyteFile"

(***************************************************************************)
(* C11: to_literal makes no storage put for a FlyteFile whose remote_path  *)
(* is False or whose source path is remote, whatever the declared type,    *)
(* the execution mode and the other attributes; the URI of the Blob it     *)
(* returns is the source path (the remote_source) as it is.                *)
(***************************************************************************)
C11_NoUpload ==
    (/\ GivenFlyteFile
     /\ val.value.ff.remote_path = "False" \/ is_remote(val.value.ff.path))
    => /\ puts = <<>>
       /\ lit.exists => lit.uri = val.value.ff.path

\* A local file with remote_path=False converted in remote execution with a
\* FlyteFile type: the one case that would upload without the flag.
C11_Witness ==
    /\ GivenFlyteFile
    /\ val.value.ff.remote_path = "False"
    /\ val.value.ff.path \in LocalFiles
    /\ val.python_type \in FlyteFileTypes
    /\ ~env.local_execution
    /\ lit.exists
    /\ puts = <<>>


\* The value given to to_literal names an existing local file: a FlyteFile
\* with no remote source, a str or a pathlib.Path.
GivenLocalFile ==
    /\ val.given
    /\ val.value.shape \in {"FlyteFile", "str", "Path"}
    /\ val.value.path \in LocalFiles

\* to_literal returned a literal and to_python_value a FlyteFile.
RoundTripped == GivenLocalFile /\ lit.exists /\ ff.exists

\* Where the returned FlyteFile gets its content from.
ContentSource == IF ff.remote_source # None THEN ff.remote_source ELSE ff.local_path

(***************************************************************************)
(* C12: for a local file value v with no remote source (a FlyteFile, a str *)
(* or a pathlib.Path; local or remote execution; uploaded or not),         *)
(* to_python_value(to_literal(v)) is a FlyteFile whose path, once          *)
(* accessed, holds the content of v's file: what it reads from holds that  *)
(* content, and so does every path an access returns.                      *)
(***************************************************************************)
C12_RoundTrip ==
    RoundTripped =>
        /\ store[ContentSource] = InitStore[val.value.path]
        /\ \A i \in 1..Len(rets) :
               rets[i] # RaisedInDownloader => store[rets[i]] = InitStore[val.value.path]


\* C12 away from the one case that breaks it: the round trip when the
\* upload destination holds no percent-escape.
C12_PlainDestinationRoundTrip ==
    (val.given /\ val.value.ff.remote_path # EscapedDest) => C12_RoundTrip


\* The value given to the pickle transformer.
GivenToPickle == val.given /\ val.python_type = "FlytePickle"

\* The pickle transformer has converted the literal back, or failed to.
PickleConvertedBack == GivenToPickle /\ lit.exists /\ (out # None \/ ferr # "none")

(***************************************************************************)
(* C13: the pickle transformer's to_literal fails on None and stores       *)
(* nothing; for any other value it writes the serialized value, uploads    *)
(* it with one put_raw_data and returns a Blob of dimensionality SINGLE    *)
(* and format PythonPickle whose URI is the uploaded location, which holds *)
(* the serialized bytes. to_python_value fetches the URI first when it is  *)
(* remote and reads it directly when it is local, and the value it         *)
(* returns equals the original; it fails only when the fetch does.         *)
(***************************************************************************)
C13_PickleRoundTrip ==
    GivenToPickle =>
        /\ val.value.shape = "None" =>
               /\ IsKind(ferr, "AssertionError")
               /\ ~lit.exists
               /\ puts = <<>>
               /\ store = InitStore
        /\ val.value.shape # "None" =>
               /\ lit.exists
               /\ lit.dimensionality = "SINGLE"
               /\ lit.format = PYTHON_PICKLE_FORMAT
               /\ Len(puts) = 1
               /\ puts[1].op = "put_raw_data"
               /\ puts[1].dest = lit.uri
               /\ store[lit.uri] = dumps(val.value.obj)
        /\ PickleConvertedBack =>
               /\ gets = IF is_remote(lit.uri)
                         THEN <<[remote_path |-> lit.uri, local_path |-> gets[1].local_path]>>
                         ELSE <<>>
               /\ out # None => out = val.value.obj
               /\ ferr # "none" => ferr = "FlyteDownloadDataException" /\ is_remote(lit.uri)

\* An object was pickled, uploaded to a remote location, fetched and loaded.
C13_Witness ==
    /\ GivenToPickle
    /\ val.value.shape = "object"
    /\ is_remote(lit.uri)
    /\ Len(gets) = 1
    /\ out = val.value.obj

\* An object was pickled into the local sandbox and read back directly.
C13_WitnessLocal ==
    /\ GivenToPickle
    /\ ~is_remote(lit.uri)
    /\ gets = <<>>
    /\ out = val.value.obj


\* The LiteralType is a blob of dimensionality SINGLE.
SingleBlob == guessed.literal_type.blob /\ guessed.literal_type.dimensionality = "SINGLE"

\* The part of C14 that names no exception: the two guesses never both
\* succeed; the file transformer's succeeds exactly on SINGLE blobs whose
\* format is not PythonPickle and returns the FlyteFile type of that format;
\* the pickle transformer's succeeds exactly on SINGLE blobs of format
\* PythonPickle.
GuessesDisjoint ==
    /\ ~(guessed.file.exc = "none" /\ guessed.pickle.exc = "none")
    /\ guessed.file.exc = "none" <=>
           SingleBlob /\ guessed.literal_type.format # PYTHON_PICKLE_FORMAT
    /\ guessed.file.exc = "none" =>
           /\ guessed.file.type \in FlyteFileTypes
           /\ get_format(guessed.file.type) = guessed.literal_type.format
    /\ guessed.pickle.exc = "none" <=>
           SingleBlob /\ guessed.literal_type.format = PYTHON_PICKLE_FORMAT

GivenToFile == val.given /\ val.python_type # "FlytePickle"

\* The declared type is neither os.PathLike nor a FlyteFile type.
WrongDeclaredType == val.python_type \notin {"os.PathLike"} \cup FlyteFileTypes

\* to_literal returned nothing and touched no storage.
NoStorageOperation == ~lit.exists /\ puts = <<>> /\ gets = <<>> /\ store = InitStore

(***************************************************************************)
(* C20 as stated: the file transformer's to_literal fails with a TypeError *)
(* when the value is None and also when the declared type is neither       *)
(* os.PathLike nor a FlyteFile type; in both cases it makes no storage     *)
(* operation.                                                              *)
(***************************************************************************)
C20_FailsWithTypeError ==
    (GivenToFile /\ (val.value.shape = "None" \/ WrongDeclaredType)) =>
        /\ IsKind(ferr, "TypeError")
        /\ NoStorageOperation

(***************************************************************************)
(* C20 amended: to_literal fails with a TypeError when the value is None;  *)
(* when the declared type is neither os.PathLike nor a FlyteFile type and  *)
(* the value is not None it fails with a ValueError if the declared type   *)
(* is a class and with a TypeError if it is not; in every one of these     *)
(* cases it makes no storage operation.                                    *)
(***************************************************************************)
C20_FailsWithoutStorage ==
    (GivenToFile /\ (val.value.shape = "None" \/ WrongDeclaredType)) =>
        /\ val.value.shape = "None" => IsKind(ferr, "TypeError")
        /\ val.value.shape # "None" =>
               ferr = IF IsClass(val.python_type) THEN "ValueError" ELSE "TypeError"
        /\ NoStorageOperation

\* An existing local file given with the declared type str in remote
\* execution: refused with ValueError, nothing uploaded.
C20_Witness ==
    /\ GivenToFile
    /\ val.value.shape = "FlyteFile"
    /\ val.value.path \in LocalFiles
    /\ val.python_type = "str"
    /\ ~env.local_execution
    /\ ferr = "ValueError"
    /\ NoStorageOperation


(***************************************************************************)
(* What the claims about to_python_value read.                             *)
(***************************************************************************)
\* to_python_value has just returned or raised: no path access yet.
JustAsked == asked.made /\ rets = <<>>

\* The literal asked about holds a binary scalar, only a generic one, or
\* neither.
AskedBinary == asked.lv.scalar /\ IsSet(asked.lv.binary)

AskedGeneric == asked.lv.scalar /\ ~IsSet(asked.lv.binary) /\ IsSet(asked.lv.generic)

AskedBlob ==
    /\ asked.lv.scalar
    /\ ~IsSet(asked.lv.binary)
    /\ ~IsSet(asked.lv.generic)
    /\ IsSet(asked.lv.blob)

AskedSingleBlob == AskedBlob /\ asked.lv.blob.dimensionality = "SINGLE"

\* The conversion failed with this exception and returned nothing.
FailedWith(exc) == ferr = exc /\ ~ff.exists

\* The conversion ended as the conversion of the SINGLE Blob literal with
\* this URI and metadata ends.
HandledAsBlob(uri, metadata) ==
    LET r == async_to_python_value([Literal(uri, "SINGLE") EXCEPT !.metadata = metadata],
                                   asked.expected, asked.random)
    IN  ferr = r.exc /\ ff = r.ff

\* The conversion ended as the claim says for a decoded mapping.
HandledAsMapping(d) ==
    IF "path" \notin DOMAIN d \/ d.path = None
    THEN IsKind(ferr, "ValueError") /\ ferr # "TypeTransformerFailedError" /\ ~ff.exists
    ELSE HandledAsBlob(d.path, d.metadata)

(***************************************************************************)
(* C23: to_python_value looks at the literal's forms in a fixed order.  A  *)
(* binary scalar comes first: with the msgpack tag its payload is decoded  *)
(* to a path and metadata mapping, with any other tag the conversion fails *)
(* with the unsupported-format error.  Otherwise a generic (struct) scalar *)
(* is decoded to the same mapping.  Otherwise the literal must be a SINGLE *)
(* Blob: any other dimensionality, or no Blob, fails with the              *)
(* unsupported-format error.  A decoded mapping with an absent or null     *)
(* path fails with a ValueError; any other mapping is handled exactly as   *)
(* the Blob with that URI and metadata.                                    *)
(***************************************************************************)
C23_DispatchOrder ==
    JustAsked =>
        /\ (AskedBinary /\ asked.lv.binary.tag # MESSAGEPACK)
               => FailedWith("TypeTransformerFailedError")
        /\ (AskedBinary /\ asked.lv.binary.tag = MESSAGEPACK)
               => HandledAsMapping(asked.lv.binary.value.msgpack_bytes_of)
        /\ AskedGeneric => HandledAsMapping(asked.lv.generic.fields)
        /\ (~AskedBinary /\ ~AskedGeneric /\ ~AskedSingleBlob)
               => FailedWith("TypeTransformerFailedError")
        /\ AskedSingleBlob
               => HandledAsBlob(asked.lv.blob.uri, asked.lv.blob.metadata)

\* A literal with both a binary and a generic scalar, naming different
\* files: the value returned is the binary one's.
C23_Witness ==
    /\ JustAsked
    /\ AskedBinary
    /\ IsSet(asked.lv.generic)
    /\ asked.lv.generic.fields.path # asked.lv.binary.value.msgpack_bytes_of.path
    /\ ff.exists
    /\ ff.path = asked.lv.binary.value.msgpack_bytes_of.path

\* A msgpack mapping with metadata and a remote path: the value returned
\* holds the metadata and downloads from the path.
C23_WitnessMapping ==
    /\ JustAsked
    /\ AskedBinary
    /\ asked.lv.binary.tag = MESSAGEPACK
    /\ ff.exists
    /\ ff.metadata # None
    /\ ff.remote_source = asked.lv.binary.value.msgpack_bytes_of.path

(***************************************************************************)
(* C24: to_python_value on a SINGLE Blob whose URI is not remote and does  *)
(* not name an existing regular file fails with an assertion error for     *)
(* every expected type, os.PathLike included, before any scratch path is   *)
(* allocated and without a storage get; a remote URI is never looked up:   *)
(* the conversion of one makes no storage call and never fails with the    *)
(* assertion error.                                                        *)
(***************************************************************************)
C24_MissingLocalFile ==
    (JustAsked /\ AskedSingleBlob) =>
        IF ~is_remote(asked.lv.blob.uri) /\ ~isfile(asked.lv.blob.uri)
        THEN /\ IsKind(ferr, "AssertionError")
             /\ ferr = "FlyteAssertion"
             /\ ff = NoFile
             /\ gets = <<>>
        ELSE /\ ~IsKind(ferr, "AssertionError")
             /\ gets = <<>>

\* A missing local file asked for as os.PathLike.
C24_Witness ==
    /\ JustAsked
    /\ AskedSingleBlob
    /\ asked.lv.blob.uri \in MissingFiles
    /\ asked.expected = "os.PathLike"
    /\ ferr = "FlyteAssertion"

(***************************************************************************)
(* C25: to_python_value with the expected type os.PathLike returns a bare  *)
(* FlyteFile for every URI, remote or local: its remote_source is unset,   *)
(* its path is the URI, its downloader is the noop and no access to its    *)
(* path calls get_data.                                                    *)
(***************************************************************************)
C25_PathLikeIsBare ==
    (asked.made /\ AskedSingleBlob /\ asked.expected = "os.PathLike" /\ ff.exists) =>
        /\ ff.remote_source = None
        /\ ff.path = asked.lv.blob.uri
        /\ ff.downloader = Noop
        /\ gets = <<>>


\* A value with no upload destination given to the file transformer's
\* to_literal in local execution: a FlyteFile whose remote_path is unset, a
\* str or a pathlib.Path.
GivenLocallyWithoutDestination ==
    /\ val.given
    /\ val.python_type \in {"os.PathLike"} \cup FlyteFileTypes
    /\ env.local_execution
    /\ \/ val.value.shape = "FlyteFile" /\ val.value.ff.remote_path = None
       \/ val.value.shape \in {"str", "Path"}

(***************************************************************************)
(* C22: in local execution to_literal makes no storage put when no upload  *)
(* destination was given, whether the value is a FlyteFile with remote_path*)
(* unset, a str or a pathlib.Path; the URI of the literal it returns is    *)
(* the source path.                                                        *)
(***************************************************************************)
C22_LocalNoUpload ==
    GivenLocallyWithoutDestination =>
        /\ puts = <<>>
        /\ lit.exists => lit.uri = val.value.path


(***************************************************************************)
(* C21: to_literal on a FlyteFile that has a remote_source returns a Blob  *)
(* whose URI is the remote_source and whose metadata is the value's, makes *)
(* no storage put and validates nothing, whatever the declared FlyteFile   *)
(* type, the remote_path and the execution mode: it never fails.  So the   *)
(* value to_python_value made from a Blob with a remote URI converts back  *)
(* to a literal with the same URI.                                         *)
(***************************************************************************)
C21_RemoteSourceReemitted ==
    /\ (/\ GivenFlyteFile
        /\ val.value.ff.remote_source # None
        /\ val.python_type \in {"os.PathLike"} \cup FlyteFileTypes)
       => /\ lit.exists
          /\ lit.uri = val.value.ff.remote_source
          /\ lit.metadata = val.value.ff.metadata
          /\ puts = <<>>
    /\ (back.made /\ ff.remote_source # None)
       => /\ back.exc = "none"
          /\ back.lit.exists
          /\ back.lit.uri = ff.remote_source
          /\ back.lit.uri = asked.lv.blob.uri
          /\ back.lit.metadata = ff.metadata
          /\ back.puts = <<>>
====
